---- MODULE Spec2Model ----
(***************************************************************************)
(* Model of the request-serving layer and the low-memory batch runner of   *)
(* HunyuanVideo-Avatar-minimal.                                            *)
(*                                                                         *)
(*  - hymm_gradio/fastapi_server.py : predict, predict_wrap, worker_loop   *)
(*    (the /predict2 endpoint, its RLock admission gate, the rank-0 /      *)
(*    non-zero-rank broadcast rendezvous)                                  *)
(*  - hymm_sp/low_memory_inference.py : main's batch loop and              *)
(*    process_batch_ultra_low_memory (OOM retry, Whisper placement,        *)
(*    cleanup)                                                             *)
(***************************************************************************)
EXTENDS Integers, Sequences, FiniteSets, TLC

\* ------------------------------------------------------------------ bounds
\* number of threadpool threads serving /predict2 concurrently on rank 0
NumThreads == 2
\* number of rows of the manifest processed by main's batch loop
NumBatches == 3

Threads == 1..NumThreads
NoThread == 0

\* MiB per GiB: the code divides byte counts by 1024**3
GiB == 1024

\* process_batch_ultra_low_memory has not ended yet
NoResult == [kind |-> "none"]
\* an args.image_size that is missing or None
NoSize == 0

Min(a, b) == IF a <= b THEN a ELSE b

\* audio_len[0] values the preprocessing delivers: the frames of the audio
\* clip, floor(N*F) (the batch loader and data_preprocess_server)
AudioLens == {40, 100, 200}
\* frames the model produces beyond the length of the audio clip
ExtraFrames == {0, 4}

\* model_path values a caller hands to load_model_with_mmgp
ModelPaths == {"transformer", "text_encoder"}
\* MMGPMemoryManager.__init__ (mmgp_utils.py line 29): loaded_models = {};
\* the registry is kept as the placement of the model registered under
\* each key, "absent" for a key the dict does not have
NoModels == [k \in ModelPaths |-> "absent"]

\* ------------------------------------------------------------ state: server
VARIABLES
    sp_size,      \* nccl_info.sp_size, fixed at process start
    rlock,        \* the module-level threading.RLock: [owner, count]
    pc,           \* per thread: position inside predict / predict_wrap
    req,          \* per thread: the request being served (image_path, audio_path)
    is_acquire,   \* per thread: predict's local is_acquire
    raised,       \* per thread: an exception left predict_wrap and is pending in predict
    res,          \* per thread: the value predict returns (NoRes while undecided)
    nPre,         \* per thread: calls of data_preprocess_server for the current request
    nBcast,       \* per thread: calls of dist.broadcast_object_list for the current request
    nModel,       \* per thread: calls of hunyuan_sampler.predict for the current request
    w_pc,         \* the non-zero rank: position inside worker_loop / predict_wrap
    w_batch,      \* the non-zero rank: broadcast parameters it last received
    wrap_audio_len, \* per thread: predict_wrap's local audio_len[0] (0 while unset)
    wrap_frames   \* per thread: frames the model produced / frames of the returned video

\* ------------------------------------------------------- state: batch runner
VARIABLES
    b_pc,             \* position of main / process_batch_ultra_low_memory
    batch_index,      \* enumerate(json_loader, start=1)
    args_image_size,  \* args.image_size
    args_cpu_offload, \* args.cpu_offload
    args_infer_min,   \* args.infer_min
    total_mib,        \* torch.cuda.get_device_properties(0).total_memory, in MiB
    wav2vec_dev,      \* wav2vec.device.type
    audio_len,        \* batch["audio_len"][0]
    original_image_size, \* local of the OOM handler
    calls,            \* model invocations of the current batch: <<[image_size, audio_len, outcome]>>
    pb_result,        \* how the last process_batch call ended: returned path or raised exception
    dev_before,       \* wav2vec placement when the current batch was entered
    cleaned,          \* a cleanup (gc.collect + empty_cache) ran since the last model invocation
    successful_generations,
    loaded_audio_len, \* batch["audio_len"][0] as the loader delivered it (frames of the audio clip)
    frames,           \* frames the model produced / frames kept in the saved video of the current batch
    entry_image_size, \* args.image_size when process_batch was entered for the current batch
    raised_batches    \* batches whose process_batch call raised (main line 392)

\* ------------------------------------------- state: configuration functions
VARIABLES
    c_pc,   \* "ready", or "called" when cfg holds the last call
    cfg,    \* the last call of a configuration / monitoring function: [fn, in, out]
    current_vram_mode \* the module-level global of web_demo.py (line 35), "none" for None

\* ------------------------------------------------------ state: model loading
VARIABLES
    l_pc,             \* position inside load_models_with_offloading
    mmgp_available,   \* mmgp_utils.MMGP_AVAILABLE
    loaded_models,    \* memory_manager.loaded_models: key -> placement of the registered model
    transformer_dev,  \* placement of hunyuan_video_sampler.pipeline.transformer
    align_dev,        \* placement of align_instance
    cli_args,         \* the arguments as parse_args left them
    args_mixed_precision, \* args.mixed_precision
    last_cleanup      \* what the last checkpoint ran: "none", "standard", "emergency"

\* ---------------------------------------------------------- state: web demo
VARIABLES
    processing_lock,  \* the module-level flag of web_demo.py (line 36)
    pipeline,         \* the module-level pipeline is not None
    g_pc,             \* per thread: position inside generate_avatar_video
    g_in,             \* per thread: the image and audio arguments of the call
    g_res             \* per thread: how the call ended

svars == <<sp_size, rlock, pc, req, is_acquire, raised, res, nPre, nBcast, nModel,
           w_pc, w_batch, wrap_audio_len, wrap_frames>>
bvars == <<b_pc, batch_index, args_image_size, args_cpu_offload, args_infer_min,
           total_mib, wav2vec_dev, audio_len, original_image_size, calls, pb_result,
           dev_before, cleaned, successful_generations, loaded_audio_len, frames,
           entry_image_size, raised_batches>>
cvars == <<c_pc, cfg, current_vram_mode>>
lvars == <<l_pc, mmgp_available, loaded_models, transformer_dev, align_dev, cli_args,
           args_mixed_precision, last_cleanup>>
wvars == <<processing_lock, pipeline, g_pc, g_in, g_res>>
vars == <<svars, bvars, cvars, lvars, wvars>>

\* =====================================================================
\*  fastapi_server.py
\* =====================================================================

None == "None"
\* values a path field of the processed input_dict can take
Paths == {None, "file"}

NoRes == [none |-> TRUE]

\* line 144: the fall-through result of predict
BrokenRes == [errCode |-> -1, info |-> "broken"]

\* lines 168-176
InvalidRes ==
    [errCode |-> -3, content |-> <<[buffer |-> None]>>, info |-> "input content is not valid"]

\* lines 191-199
PreprocessFailedRes ==
    [errCode |-> -2, content |-> <<[buffer |-> None]>>, info |-> "failed to preprocess input data"]

\* lines 238-246
OuterFailedRes ==
    [errCode |-> -1, content |-> <<[buffer |-> None]>>, info |-> "failed to preprocess"]

\* lines 288-296
GenerateFailedRes ==
    [errCode |-> -1, content |-> <<[buffer |-> None]>>, info |-> "failed to generate video"]

\* lines 274-283: process_output_dict turns err_code 0 / "succeed" / video into the reply
SuccessRes ==
    [errCode |-> 0, content |-> <<[buffer |-> "video"]>>, info |-> "succeed"]

\* process_input_dict: the decoded request keeps image_path / audio_path (None when absent)
ProcessInputDict(r) == [image_path |-> r.image_path, audio_path |-> r.audio_path]

\* a lock that treats every thread as its owner
RLockAcquireAnyThread(l, t) ==
    [lock |-> [owner |-> t, count |-> l.count + 1], ok |-> TRUE]

\* threading.RLock.acquire(blocking=False) by thread t: re-entrant for the owner,
\* succeeds when free, fails at once when another thread owns it
RLockAcquire(l, t) ==
    IF l.owner = t
    THEN [lock |-> [owner |-> t, count |-> l.count + 1], ok |-> TRUE]
    ELSE IF l.owner = NoThread
         THEN [lock |-> [owner |-> t, count |-> 1], ok |-> TRUE]
         ELSE [lock |-> l, ok |-> FALSE]

\* threading.RLock.release() by the owning thread
RLockRelease(l, t) ==
    IF l.count > 1
    THEN [owner |-> t, count |-> l.count - 1]
    ELSE [owner |-> NoThread, count |-> 0]

\* predict_wrap line 147-149: the local `rank` is assigned only when sp_size > 1
RankIsBound(sp) == sp > 1

\* __main__: rank 0 runs uvicorn, every other rank runs worker_loop
\* the batch runner is a different program: its variables stay at rest here
ServerInit ==
    /\ sp_size \in {1, 2}
    /\ rlock = [owner |-> NoThread, count |-> 0]
    /\ pc = [t \in Threads |-> "idle"]
    /\ req = [t \in Threads |-> [image_path |-> None, audio_path |-> None]]
    /\ is_acquire = [t \in Threads |-> FALSE]
    /\ raised = [t \in Threads |-> FALSE]
    /\ res = [t \in Threads |-> NoRes]
    /\ nPre = [t \in Threads |-> 0]
    /\ nBcast = [t \in Threads |-> 0]
    /\ nModel = [t \in Threads |-> 0]
    /\ wrap_audio_len = [t \in Threads |-> 0]
    /\ wrap_frames = [t \in Threads |-> [produced |-> 0, kept |-> 0]]
    /\ w_batch = None
    /\ w_pc = IF sp_size > 1 THEN "w_loop" ELSE "absent"
    /\ b_pc = "off"
    /\ batch_index = 0
    /\ args_image_size = 256
    /\ args_cpu_offload = TRUE
    /\ args_infer_min = TRUE
    /\ total_mib = 6 * GiB
    /\ wav2vec_dev = "cpu"
    /\ audio_len = 0
    /\ original_image_size = 0
    /\ calls = <<>>
    /\ pb_result = NoResult
    /\ dev_before = "cpu"
    /\ cleaned = TRUE
    /\ successful_generations = 0
    /\ loaded_audio_len = 0
    /\ frames = [produced |-> 0, kept |-> 0]
    /\ entry_image_size = 0
    /\ raised_batches = 0
    /\ c_pc = "off"
    /\ cfg = [fn |-> "none"]
    /\ current_vram_mode = "none"
    /\ l_pc = "off"
    /\ mmgp_available = FALSE
    /\ loaded_models = NoModels
    /\ transformer_dev = "none"
    /\ align_dev = "none"
    /\ cli_args = [image_size |-> NoSize, cpu_offload |-> None,
                   mixed_precision |-> None, infer_min |-> None]
    /\ args_mixed_precision = TRUE
    /\ last_cleanup = "none"
    /\ processing_lock = FALSE
    /\ pipeline = FALSE
    /\ g_pc = [t \in Threads |-> "off"]
    /\ g_in = [t \in Threads |-> [image |-> None, audio |-> None]]
    /\ g_res = [t \in Threads |-> "none"]

\* a request arrives on thread t: predict lines 130-132
Call(t) ==
    /\ pc[t] \in {"idle", "returned"}
    /\ \E i \in Paths, a \in Paths :
          req' = [req EXCEPT ![t] = [image_path |-> i, audio_path |-> a]]
    /\ is_acquire' = [is_acquire EXCEPT ![t] = FALSE]
    /\ raised' = [raised EXCEPT ![t] = FALSE]
    /\ res' = [res EXCEPT ![t] = NoRes]
    /\ nPre' = [nPre EXCEPT ![t] = 0]
    /\ nBcast' = [nBcast EXCEPT ![t] = 0]
    /\ nModel' = [nModel EXCEPT ![t] = 0]
    /\ wrap_audio_len' = [wrap_audio_len EXCEPT ![t] = 0]
    /\ wrap_frames' = [wrap_frames EXCEPT ![t] = [produced |-> 0, kept |-> 0]]
    /\ pc' = [pc EXCEPT ![t] = "acquire"]
    /\ UNCHANGED <<sp_size, rlock, w_pc, w_batch>>
    /\ UNCHANGED <<bvars, cvars, lvars, wvars>>

\* a variant of line 134 with a blocking acquire
AcquireBlocking(t) ==
    /\ pc[t] = "acquire"
    /\ rlock.owner \in {NoThread, t}
    /\ rlock' = RLockAcquire(rlock, t).lock
    /\ is_acquire' = [is_acquire EXCEPT ![t] = TRUE]
    /\ pc' = [pc EXCEPT ![t] = "wrap"]
    /\ UNCHANGED <<sp_size, req, raised, res, nPre, nBcast, nModel, w_pc, w_batch>>
    /\ UNCHANGED <<wrap_audio_len, wrap_frames>>
    /\ UNCHANGED <<bvars, cvars, lvars, wvars>>

\* predict lines 134-135: is_acquire = rlock.acquire(blocking=False)
Acquire(t) ==
    /\ pc[t] = "acquire"
    /\ LET r == RLockAcquire(rlock, t) IN
          /\ rlock' = r.lock
          /\ is_acquire' = [is_acquire EXCEPT ![t] = r.ok]
          /\ pc' = [pc EXCEPT ![t] = IF r.ok THEN "wrap" ELSE "finally"]
    /\ UNCHANGED <<sp_size, req, raised, res, nPre, nBcast, nModel, w_pc, w_batch>>
    /\ UNCHANGED <<wrap_audio_len, wrap_frames>>
    /\ UNCHANGED <<bvars, cvars, lvars, wvars>>

\* predict_wrap lines 147-152 on rank 0.  With sp_size <= 1 the local `rank`
\* is unbound: line 152 raises UnboundLocalError, the handler of line 235
\* evaluates `rank == 0` (line 237) and raises again, and that exception
\* leaves predict_wrap.
WrapEnter(t) ==
    /\ pc[t] = "wrap"
    /\ IF RankIsBound(sp_size)
       THEN /\ pc' = [pc EXCEPT ![t] = "input"]
            /\ UNCHANGED raised
       ELSE /\ pc' = [pc EXCEPT ![t] = "except"]
            /\ raised' = [raised EXCEPT ![t] = TRUE]
    /\ UNCHANGED <<sp_size, rlock, req, is_acquire, res, nPre, nBcast, nModel, w_pc, w_batch>>
    /\ UNCHANGED <<wrap_audio_len, wrap_frames>>
    /\ UNCHANGED <<bvars, cvars, lvars, wvars>>

\* predict_wrap lines 153-182: decode the request, validate it, synchronize;
\* an exception of torch.cuda.synchronize is handled at lines 235-247
ValidateInput(t) ==
    /\ pc[t] = "input"
    /\ LET d == ProcessInputDict(req[t]) IN
          IF d.image_path = None \/ d.audio_path = None
          THEN /\ res' = [res EXCEPT ![t] = InvalidRes]
               /\ pc' = [pc EXCEPT ![t] = "finally"]
          ELSE \E syncOk \in BOOLEAN :
                  IF syncOk
                  THEN /\ pc' = [pc EXCEPT ![t] = "preprocess"]
                       /\ UNCHANGED res
                  ELSE /\ res' = [res EXCEPT ![t] = OuterFailedRes]
                       /\ pc' = [pc EXCEPT ![t] = "finally"]
    /\ UNCHANGED <<sp_size, rlock, req, is_acquire, raised, nPre, nBcast, nModel, w_pc, w_batch>>
    /\ UNCHANGED <<wrap_audio_len, wrap_frames>>
    /\ UNCHANGED <<bvars, cvars, lvars, wvars>>

\* a variant of lines 185-201 that calls data_preprocess_server a second
\* time before giving up
PreprocessRetryOnce(t) ==
    /\ pc[t] = "preprocess"
    /\ nPre' = [nPre EXCEPT ![t] = @ + 1]
    /\ \E ok \in BOOLEAN :
          IF ok
          THEN /\ pc' = [pc EXCEPT ![t] = "pre_sync"]
               /\ UNCHANGED res
          ELSE IF nPre[t] = 0
               THEN UNCHANGED <<pc, res>>
               ELSE /\ res' = [res EXCEPT ![t] = PreprocessFailedRes]
                    /\ pc' = [pc EXCEPT ![t] = "finally"]
    /\ UNCHANGED <<sp_size, rlock, req, is_acquire, raised, nBcast, nModel, w_pc, w_batch>>
    /\ UNCHANGED <<wrap_audio_len, wrap_frames>>
    /\ UNCHANGED <<bvars, cvars, lvars, wvars>>

\* predict_wrap lines 185-201: data_preprocess_server inside its own try,
\* whose bare except returns -2
Preprocess(t) ==
    /\ pc[t] = "preprocess"
    /\ nPre' = [nPre EXCEPT ![t] = @ + 1]
    /\ \E ok \in BOOLEAN :
          IF ok
          THEN /\ pc' = [pc EXCEPT ![t] = "pre_sync"]
               /\ UNCHANGED res
          ELSE /\ res' = [res EXCEPT ![t] = PreprocessFailedRes]
               /\ pc' = [pc EXCEPT ![t] = "finally"]
    /\ UNCHANGED <<sp_size, rlock, req, is_acquire, raised, nBcast, nModel, w_pc, w_batch>>
    /\ UNCHANGED <<wrap_audio_len, wrap_frames>>
    /\ UNCHANGED <<bvars, cvars, lvars, wvars>>

\* predict_wrap lines 203-221: the preprocessed values are unpacked
\* (line 208: audio_len = model_kwargs_tmp["audio_len"], the frames of the
\* audio clip) and torch.cuda.synchronize() (line 216) runs outside the
\* inner try; when it raises, the bare except of lines 235-247 returns -1
PreprocessSync(t) ==
    /\ pc[t] = "pre_sync"
    /\ \E n \in AudioLens :
          wrap_audio_len' = [wrap_audio_len EXCEPT ![t] = n]
    /\ \E syncOk \in BOOLEAN :
          IF syncOk
          THEN /\ pc' = [pc EXCEPT ![t] = "broadcast"]
               /\ UNCHANGED res
          ELSE /\ res' = [res EXCEPT ![t] = OuterFailedRes]
               /\ pc' = [pc EXCEPT ![t] = "finally"]
    /\ UNCHANGED <<sp_size, rlock, req, is_acquire, raised, nPre, nBcast, nModel,
                   w_pc, w_batch>>
    /\ UNCHANGED wrap_frames
    /\ UNCHANGED <<bvars, cvars, lvars, wvars>>

\* a variant of lines 249-262 in which rank 0 does not wait for the other
\* rank to take part in the broadcast
BroadcastNoWait(t) ==
    /\ pc[t] = "broadcast"
    /\ nBcast' = [nBcast EXCEPT ![t] = @ + 1]
    /\ pc' = [pc EXCEPT ![t] = "generate"]
    /\ IF w_pc = "bcast_wait"
       THEN /\ w_batch' = req[t]
            /\ w_pc' = "w_generate"
       ELSE UNCHANGED <<w_pc, w_batch>>
    /\ UNCHANGED <<sp_size, rlock, req, is_acquire, raised, res, nPre, nModel>>
    /\ UNCHANGED <<wrap_audio_len, wrap_frames>>
    /\ UNCHANGED <<bvars, cvars, lvars, wvars>>

\* predict_wrap lines 249-262 on rank 0 together with the same lines on the
\* other rank: dist.broadcast_object_list is a collective, it completes when
\* the non-zero rank has reached it too. When the call raises on rank 0 the
\* bare except of lines 285-297 returns -1 "failed to generate video": the
\* call was made, no broadcast was completed and the other rank is left
\* where it was.
Broadcast(t) ==
    /\ pc[t] = "broadcast"
    /\ nBcast' = [nBcast EXCEPT ![t] = @ + 1]
    /\ \E bcastOk \in BOOLEAN :
          IF bcastOk
          THEN /\ w_pc = "bcast_wait"
               /\ w_batch' = req[t]
               /\ w_pc' = "w_generate"
               /\ pc' = [pc EXCEPT ![t] = "generate"]
               /\ UNCHANGED res
          ELSE /\ res' = [res EXCEPT ![t] = GenerateFailedRes]
               /\ pc' = [pc EXCEPT ![t] = "finally"]
               /\ UNCHANGED <<w_batch, w_pc>>
    /\ UNCHANGED <<sp_size, rlock, req, is_acquire, raised, nPre, nModel>>
    /\ UNCHANGED <<wrap_audio_len, wrap_frames>>
    /\ UNCHANGED <<bvars, cvars, lvars, wvars>>

\* predict_wrap line 263 (generate_image_parallel, lines 301-329) on rank 0;
\* an exception is handled at lines 285-297
Generate(t) ==
    /\ pc[t] = "generate"
    /\ nModel' = [nModel EXCEPT ![t] = @ + 1]
    /\ \E ok \in BOOLEAN :
          IF ok
          THEN /\ pc' = [pc EXCEPT ![t] = "post"]
               /\ UNCHANGED res
          ELSE /\ res' = [res EXCEPT ![t] = GenerateFailedRes]
               /\ pc' = [pc EXCEPT ![t] = "finally"]
    /\ UNCHANGED <<sp_size, rlock, req, is_acquire, raised, nPre, nBcast, w_pc, w_batch>>
    /\ UNCHANGED <<wrap_audio_len, wrap_frames>>
    /\ UNCHANGED <<bvars, cvars, lvars, wvars>>

\* predict_wrap lines 265-283 on rank 0: trim the sample to audio_len[0]
\* frames (line 269: sample[:, :, :audio_len[0]] keeps min(produced,
\* audio_len[0]), with no cap on audio_len), convert, process_output_dict;
\* an exception is handled at lines 285-297 and no video is returned
PostProcess(t) ==
    /\ pc[t] = "post"
    /\ \E ok \in BOOLEAN, extra \in ExtraFrames :
          IF ok
          THEN /\ wrap_frames' = [wrap_frames EXCEPT ![t] =
                      [produced |-> wrap_audio_len[t] + extra,
                       kept |-> Min(wrap_audio_len[t] + extra, wrap_audio_len[t])]]
               /\ res' = [res EXCEPT ![t] = SuccessRes]
          ELSE /\ res' = [res EXCEPT ![t] = GenerateFailedRes]
               /\ UNCHANGED wrap_frames
    /\ pc' = [pc EXCEPT ![t] = "finally"]
    /\ UNCHANGED <<sp_size, rlock, req, is_acquire, raised, nPre, nBcast, nModel, w_pc, w_batch>>
    /\ UNCHANGED wrap_audio_len
    /\ UNCHANGED <<bvars, cvars, lvars, wvars>>

\* predict lines 138-140: except Exception: print the traceback
Except(t) ==
    /\ pc[t] = "except"
    /\ pc' = [pc EXCEPT ![t] = "finally"]
    /\ UNCHANGED <<sp_size, rlock, req, is_acquire, raised, res, nPre, nBcast, nModel, w_pc, w_batch>>
    /\ UNCHANGED <<wrap_audio_len, wrap_frames>>
    /\ UNCHANGED <<bvars, cvars, lvars, wvars>>

\* a variant of lines 141-143 that releases on the normal return only
FinallyReleaseNoExc(l, t, acq, exc) ==
    IF acq /\ ~exc THEN RLockRelease(l, t) ELSE l

\* predict lines 141-143: finally: if is_acquire: rlock.release()
FinallyRelease(l, t, acq, exc) ==
    IF acq THEN RLockRelease(l, t) ELSE l

\* predict lines 137, 141-144: run the finally block, then return res of
\* predict_wrap (line 137) or the fall-through result (line 144)
Finally(t) ==
    /\ pc[t] = "finally"
    /\ rlock' = FinallyRelease(rlock, t, is_acquire[t], raised[t])
    /\ res' = [res EXCEPT ![t] = IF res[t] = NoRes THEN BrokenRes ELSE res[t]]
    /\ pc' = [pc EXCEPT ![t] = "returned"]
    /\ UNCHANGED <<sp_size, req, is_acquire, raised, nPre, nBcast, nModel, w_pc, w_batch>>
    /\ UNCHANGED <<wrap_audio_len, wrap_frames>>
    /\ UNCHANGED <<bvars, cvars, lvars, wvars>>

\* worker_loop lines 331-333 and predict_wrap lines 146-152, 223-233 on the
\* non-zero rank: every parameter is None, then it waits in the broadcast
WorkerEnter ==
    /\ w_pc = "w_loop"
    /\ w_pc' = "bcast_wait"
    /\ w_batch' = None
    /\ UNCHANGED <<sp_size, rlock, pc, req, is_acquire, raised, res, nPre, nBcast, nModel>>
    /\ UNCHANGED <<wrap_audio_len, wrap_frames>>
    /\ UNCHANGED <<bvars, cvars, lvars, wvars>>

\* predict_wrap lines 249-262, 285-299 on the non-zero rank: its call of
\* dist.broadcast_object_list raises while it waits; the bare except of
\* line 285 does nothing for rank != 0, line 299 returns None and
\* worker_loop calls predict_wrap again. No model invocation.
WorkerBroadcastRaises ==
    /\ w_pc = "bcast_wait"
    /\ w_pc' = "w_loop"
    /\ UNCHANGED <<sp_size, rlock, pc, req, is_acquire, raised, res, nPre, nBcast, nModel, w_batch>>
    /\ UNCHANGED <<wrap_audio_len, wrap_frames>>
    /\ UNCHANGED <<bvars, cvars, lvars, wvars>>

\* predict_wrap lines 263, 285-299 on the non-zero rank: invoke the model on
\* the received batch; result or exception, predict_wrap returns None
WorkerGenerate ==
    /\ w_pc = "w_generate"
    /\ w_pc' = "w_loop"
    /\ UNCHANGED <<sp_size, rlock, pc, req, is_acquire, raised, res, nPre, nBcast, nModel, w_batch>>
    /\ UNCHANGED <<wrap_audio_len, wrap_frames>>
    /\ UNCHANGED <<bvars, cvars, lvars, wvars>>

ServerNext ==
    \/ \E t \in Threads : Call(t)
    \/ \E t \in Threads : Acquire(t)
    \/ \E t \in Threads : WrapEnter(t)
    \/ \E t \in Threads : ValidateInput(t)
    \/ \E t \in Threads : Preprocess(t)
    \/ \E t \in Threads : PreprocessSync(t)
    \/ \E t \in Threads : Broadcast(t)
    \/ \E t \in Threads : Generate(t)
    \/ \E t \in Threads : PostProcess(t)
    \/ \E t \in Threads : Except(t)
    \/ \E t \in Threads : Finally(t)
    \/ WorkerEnter
    \/ WorkerBroadcastRaises
    \/ WorkerGenerate

\* =====================================================================
\*  config_minimal.py / low_memory_inference.py
\* =====================================================================

Max(a, b) == IF a >= b THEN a ELSE b

\* total capacities (MiB) the runner is started with
Capacities == {6 * GiB, 16 * GiB}
\* args.image_size before load_models_with_offloading
CliImageSizes == {NoSize, 64, 128, 256, 512}
\* a boolean argument before load_models_with_offloading: None, True or False
CliFlags == {None, "True", "False"}

\* torch.cuda.memory_allocated() samples (MiB) at a capacity of total MiB
AllocSamples(total) ==
    {total \div 2, total - 3 * GiB, total - GiB, (total * 88) \div 100}

\* config_minimal.py get_recommended_config, image_size of the preset chosen
\* by total capacity (CUDA available)
RecommendedImageSize(total) ==
    IF total <= 6 * GiB THEN 128
    ELSE IF total <= 8 * GiB THEN 256
    ELSE IF total <= 12 * GiB THEN 384
    ELSE 512

\* config_minimal.py get_recommended_config, infer_min of the preset
RecommendedInferMin(total) == total <= 8 * GiB

\* config_minimal.py get_dynamic_memory_config, image_size of the returned dict
DynamicImageSize(total, alloc) ==
    IF total - alloc < 2 * GiB THEN 128
    ELSE IF total - alloc < 4 * GiB THEN 256
    ELSE RecommendedImageSize(total)

\* load_models_with_offloading lines 113-114
LoadImageSize(cli, total) == IF cli = NoSize THEN RecommendedImageSize(total) ELSE cli

\* load_models_with_offloading lines 116-120; every preset has cpu_offload True
LoadCpuOffload(cli) == IF cli = None THEN TRUE ELSE ((cli = "True") \/ TRUE)

\* load_models_with_offloading lines 121-122; every preset has
\* mixed_precision True
LoadMixedPrecision(cli) == IF cli = None THEN TRUE ELSE (cli = "True")

\* load_models_with_offloading lines 123-124
LoadInferMin(cli, total) == IF cli = None THEN RecommendedInferMin(total) ELSE (cli = "True")

\* the checkpoint with the 75 % mark included in the elevated band
MonitorActionInclusive(total, alloc) ==
    IF alloc * 10 > 9 * total THEN "emergency"
    ELSE IF alloc * 100 > 85 * total THEN "emergency"
    ELSE IF alloc * 100 >= 75 * total THEN "standard"
    ELSE "none"
\* monitor_memory_usage (lines 83-102) with MMGPMemoryManager.monitor_memory
\* (mmgp_utils.py lines 140-153): which cleanup a checkpoint runs
MonitorAction(total, alloc) ==
    IF alloc * 10 > 9 * total THEN "emergency"
    ELSE IF alloc * 100 > 85 * total THEN "emergency"
    ELSE IF alloc * 100 > 75 * total THEN "standard"
    ELSE "none"

\* both cleanup_memory (aggressive_cleanup: gc.collect + empty_cache) and
\* emergency_cleanup release the cache and collect garbage
MonitorCleans(total, alloc) == MonitorAction(total, alloc) # "none"

\* ------------------------------------------------- tier classification
\* web_demo.py detect_optimal_settings: the keys of its settings table, in
\* the capability order of lines 60-73
TierOrder ==
    <<"cpu_only", "ultra_minimal", "ultra_low", "low", "balanced",
      "high_performance", "maximum_quality">>
Tiers == {TierOrder[i] : i \in 1..Len(TierOrder)}
\* values of the VRAM_MODE environment variable; "turbo" is a key the
\* settings table does not have
VramModes == {"auto", "turbo"} \cup Tiers

\* what the accelerator probe does: torch.cuda.is_available() is False, is
\* True, or the probe raises
Detections == {"no_cuda", "cuda", "raises"}

\* total_memory samples in MiB, rounded up (every comparison of a total is
\* "<="): 7630 is 8 000 000 000 bytes, 15259 is 16 000 000 000 bytes
ConfigCapacities ==
    {1, 4 * GiB, 6 * GiB, 6 * GiB + 1, 7630, 8 * GiB, 8 * GiB + 1, 10 * GiB,
     12 * GiB, 12 * GiB + 1, 15259, 16 * GiB, 16 * GiB + 1, 20 * GiB,
     24 * GiB, 24 * GiB + 1, 100 * GiB}

\* an environment variable read with int(os.environ.get(NAME, default))
Unset == [kind |-> "unset", val |-> 0]
Malformed == [kind |-> "malformed", val |-> 0]
EnvInt(n) == [kind |-> "int", val |-> n]
ImageSizeEnv == {Unset, Malformed, EnvInt(64), EnvInt(1024)}
VideoLengthEnv == {Unset, EnvInt(12)}
InferenceStepsEnv == {Unset, EnvInt(12)}
BatchSizeEnv == {Unset, Malformed, EnvInt(3)}
\* int(os.environ.get(NAME, default)) for a well-formed or missing value
IntOrDefault(e, d) == IF e.kind = "int" THEN e.val ELSE d

\* detect_optimal_settings lines 58-73 with strict comparisons
DetectTierStrict(cuda, total) ==
    IF ~cuda THEN "cpu_only"
    ELSE IF total < 6 * GiB THEN "ultra_minimal"
    ELSE IF total < 8 * GiB THEN "ultra_low"
    ELSE IF total < 12 * GiB THEN "low"
    ELSE IF total < 16 * GiB THEN "balanced"
    ELSE IF total < 24 * GiB THEN "high_performance"
    ELSE "maximum_quality"
\* detect_optimal_settings lines 58-73: the tier of a total capacity
DetectTier(cuda, total) ==
    IF ~cuda THEN "cpu_only"
    ELSE IF total <= 6 * GiB THEN "ultra_minimal"
    ELSE IF total <= 8 * GiB THEN "ultra_low"
    ELSE IF total <= 12 * GiB THEN "low"
    ELSE IF total <= 16 * GiB THEN "balanced"
    ELSE IF total <= 24 * GiB THEN "high_performance"
    ELSE "maximum_quality"

\* the settings table with the first two rows exchanged in resolution
TierDefaultsUnordered(tier) ==
    CASE tier = "cpu_only"         -> [image_size |-> 256, video_length |-> 8, inference_steps |-> 10, batch_size |-> 1]
      [] tier = "ultra_minimal"    -> [image_size |-> 128, video_length |-> 8, inference_steps |-> 15, batch_size |-> 1]
      [] tier = "ultra_low"        -> [image_size |-> 256, video_length |-> 16, inference_steps |-> 20, batch_size |-> 1]
      [] tier = "low"              -> [image_size |-> 384, video_length |-> 32, inference_steps |-> 25, batch_size |-> 1]
      [] tier = "balanced"         -> [image_size |-> 512, video_length |-> 64, inference_steps |-> 30, batch_size |-> 2]
      [] tier = "high_performance" -> [image_size |-> 704, video_length |-> 128, inference_steps |-> 35, batch_size |-> 2]
      [] tier = "maximum_quality"  -> [image_size |-> 1024, video_length |-> 256, inference_steps |-> 50, batch_size |-> 4]
\* detect_optimal_settings lines 78-151: the defaults of each row of settings
TierDefaults(tier) ==
    CASE tier = "cpu_only"         -> [image_size |-> 128, video_length |-> 8, inference_steps |-> 10, batch_size |-> 1]
      [] tier = "ultra_minimal"    -> [image_size |-> 128, video_length |-> 8, inference_steps |-> 15, batch_size |-> 1]
      [] tier = "ultra_low"        -> [image_size |-> 256, video_length |-> 16, inference_steps |-> 20, batch_size |-> 1]
      [] tier = "low"              -> [image_size |-> 384, video_length |-> 32, inference_steps |-> 25, batch_size |-> 1]
      [] tier = "balanced"         -> [image_size |-> 512, video_length |-> 64, inference_steps |-> 30, batch_size |-> 2]
      [] tier = "high_performance" -> [image_size |-> 704, video_length |-> 128, inference_steps |-> 35, batch_size |-> 2]
      [] tier = "maximum_quality"  -> [image_size |-> 1024, video_length |-> 256, inference_steps |-> 50, batch_size |-> 4]

\* what a call that raised leaves: no settings row, and in vram_mode the
\* value of the global current_vram_mode ("none" while line 75 has not
\* assigned it)
Raised(current) ==
    [raised |-> TRUE, vram_mode |-> current, tier |-> "none",
     image_size |-> 0, video_length |-> 0, inference_steps |-> 0, batch_size |-> 0]

\* detect_optimal_settings (web_demo.py lines 49-153); current is the value
\* of the global current_vram_mode when the call starts and the result's
\* vram_mode its value when the call ends. In automatic mode the probe of
\* lines 58-59 is outside any try and raises before line 75 has assigned
\* the global, which keeps its earlier value; the dict literal of lines
\* 78-151 evaluates int(os.environ.get(...)) of IMAGE_SIZE, VIDEO_LENGTH,
\* BATCH_SIZE and INFERENCE_STEPS for every row but cpu_only on every call,
\* after line 75 has stored the mode; line 153 falls back to the ultra_low
\* row for an unknown key.
DetectOptimalSettings(current, vram_env, detection, total, e_img, e_len, e_steps, e_batch) ==
    LET mode == IF vram_env = "auto" THEN DetectTier(detection = "cuda", total) ELSE vram_env
        key  == IF mode \in Tiers THEN mode ELSE "ultra_low"
        d    == TierDefaults(key)
    IN  IF vram_env = "auto" /\ detection = "raises" THEN Raised(current)
        ELSE IF Malformed \in {e_img, e_len, e_steps, e_batch} THEN Raised(mode)
        ELSE IF key = "cpu_only"
             THEN [raised |-> FALSE, vram_mode |-> mode, tier |-> key,
                   image_size |-> d.image_size, video_length |-> d.video_length,
                   inference_steps |-> d.inference_steps, batch_size |-> d.batch_size]
             ELSE [raised |-> FALSE, vram_mode |-> mode, tier |-> key,
                   image_size |-> IntOrDefault(e_img, d.image_size),
                   video_length |-> IntOrDefault(e_len, d.video_length),
                   inference_steps |-> IntOrDefault(e_steps, d.inference_steps),
                   batch_size |-> IntOrDefault(e_batch, d.batch_size)]

\* config_minimal.py QUALITY_PRESETS (lines 36-91): keys in declared order
PresetOrder == <<"ultra_minimal_4gb", "ultra_low_vram", "low_vram", "balanced">>
Presets == {PresetOrder[i] : i \in 1..Len(PresetOrder)}
QualityPresets(name) ==
    CASE name = "ultra_minimal_4gb" ->
             [image_size |-> 128, video_length |-> 8, num_inference_steps |-> 15, infer_min |-> TRUE]
      [] name = "ultra_low_vram" ->
             [image_size |-> 256, video_length |-> 16, num_inference_steps |-> 20, infer_min |-> TRUE]
      [] name = "low_vram" ->
             [image_size |-> 384, video_length |-> 32, num_inference_steps |-> 25, infer_min |-> FALSE]
      [] name = "balanced" ->
             [image_size |-> 512, video_length |-> 64, num_inference_steps |-> 30, infer_min |-> FALSE]

\* config_minimal.py get_recommended_config (lines 94-114): the key of the
\* preset it returns; the bare except swallows a probe that raises
RecommendedPreset(detection, total) ==
    IF detection = "raises" THEN "ultra_minimal_4gb"
    ELSE IF detection = "no_cuda" THEN "ultra_minimal_4gb"
    ELSE IF total <= 6 * GiB THEN "ultra_minimal_4gb"
    ELSE IF total <= 8 * GiB THEN "ultra_low_vram"
    ELSE IF total <= 12 * GiB THEN "low_vram"
    ELSE "balanced"

\* torch.cuda.memory_allocated() samples for get_dynamic_memory_config, so
\* that total - alloc is the free memory in MiB rounded down (every
\* comparison of free memory is "<"): 1430 is 1 500 000 000 bytes
DynamicAllocs(total) ==
    {a \in {0, total - 4 * GiB, total - 4 * GiB + 1, total - 2 * GiB,
            total - 2 * GiB + 1, total - 1430} : a >= 0}

\* config_minimal.py get_dynamic_memory_config (lines 116-144): a dict with
\* an image_size, or None when CUDA is unavailable (the function ends
\* without a return)
GetDynamicMemoryConfig(detection, total, alloc) ==
    IF detection = "raises"
    THEN [is_dict |-> TRUE, image_size |-> QualityPresets("ultra_minimal_4gb").image_size]
    ELSE IF detection = "no_cuda" THEN [is_dict |-> FALSE, image_size |-> 0]
    ELSE [is_dict |-> TRUE, image_size |-> DynamicImageSize(total, alloc)]

\* --------------------------------------------------- monitoring checkpoints
\* capacities and allocations (MiB) around the 75 %, 85 % and 90 % marks;
\* the marks are whole numbers of MiB at 20 GiB
MonitorCapacities == {16 * GiB, 20 * GiB}
MonitorAllocs(total) ==
    {0, (total * 70) \div 100,
     (total * 75) \div 100, (total * 75) \div 100 + 1, (total * 80) \div 100,
     (total * 85) \div 100, (total * 85) \div 100 + 1,
     (total * 90) \div 100, (total * 90) \div 100 + 1, total}

\* low_memory_inference.py monitor_memory_usage (lines 83-102)
MonitorMemoryUsage(cuda, total, alloc) ==
    IF cuda THEN MonitorAction(total, alloc) ELSE "none"

\* config_minimal.py monitor_and_cleanup_memory (lines 239-256):
\* empty_cache and gc.collect above 75 %, nothing else
MonitorAndCleanupMemory(cuda, total, alloc) ==
    IF cuda /\ alloc * 100 > 75 * total THEN "standard" ELSE "none"

\* main lines 317-373: parse_args, load_models_with_offloading (which ends
\* with cleanup_memory, line 206), successful_generations = 0; the server
\* is a different program: its variables stay at rest here
BatchInit ==
    /\ b_pc = "loop"
    /\ batch_index = 0
    /\ total_mib \in Capacities
    /\ \E c \in CliImageSizes : args_image_size = LoadImageSize(c, total_mib)
    /\ \E c \in CliFlags : args_cpu_offload = LoadCpuOffload(c)
    /\ \E c \in CliFlags : args_infer_min = LoadInferMin(c, total_mib)
    /\ wav2vec_dev = IF args_cpu_offload THEN "cpu" ELSE "cuda"
    /\ audio_len = 0
    /\ original_image_size = 0
    /\ calls = <<>>
    /\ pb_result = NoResult
    /\ dev_before = wav2vec_dev
    /\ cleaned = TRUE
    /\ successful_generations = 0
    /\ loaded_audio_len = 0
    /\ frames = [produced |-> 0, kept |-> 0]
    /\ entry_image_size = 0
    /\ raised_batches = 0
    /\ c_pc = "off"
    /\ cfg = [fn |-> "none"]
    /\ current_vram_mode = "none"
    /\ l_pc = "off"
    /\ mmgp_available = FALSE
    /\ loaded_models = NoModels
    /\ transformer_dev = "none"
    /\ align_dev = "none"
    /\ cli_args = [image_size |-> NoSize, cpu_offload |-> None,
                   mixed_precision |-> None, infer_min |-> None]
    /\ args_mixed_precision = TRUE
    /\ last_cleanup = "none"
    /\ processing_lock = FALSE
    /\ pipeline = FALSE
    /\ g_pc = [t \in Threads |-> "off"]
    /\ g_in = [t \in Threads |-> [image |-> None, audio |-> None]]
    /\ g_res = [t \in Threads |-> "none"]
    /\ sp_size = 1
    /\ rlock = [owner |-> NoThread, count |-> 0]
    /\ pc = [t \in Threads |-> "idle"]
    /\ req = [t \in Threads |-> [image_path |-> None, audio_path |-> None]]
    /\ is_acquire = [t \in Threads |-> FALSE]
    /\ raised = [t \in Threads |-> FALSE]
    /\ res = [t \in Threads |-> NoRes]
    /\ nPre = [t \in Threads |-> 0]
    /\ nBcast = [t \in Threads |-> 0]
    /\ nModel = [t \in Threads |-> 0]
    /\ wrap_audio_len = [t \in Threads |-> 0]
    /\ wrap_frames = [t \in Threads |-> [produced |-> 0, kept |-> 0]]
    /\ w_batch = None
    /\ w_pc = "absent"

\* main line 375: the loader yields the next batch
MainFetch ==
    /\ b_pc = "loop"
    /\ batch_index < NumBatches
    /\ batch_index' = batch_index + 1
    /\ audio_len' \in AudioLens
    /\ loaded_audio_len' = audio_len'
    /\ frames' = [produced |-> 0, kept |-> 0]
    /\ entry_image_size' = args_image_size
    /\ UNCHANGED raised_batches
    /\ calls' = <<>>
    /\ pb_result' = NoResult
    /\ dev_before' = wav2vec_dev
    /\ b_pc' = "pb_entry"
    /\ UNCHANGED <<args_image_size, args_cpu_offload, args_infer_min, total_mib,
                   wav2vec_dev, original_image_size, cleaned, successful_generations>>
    /\ UNCHANGED <<svars, cvars, lvars, wvars>>

\* process_batch_ultra_low_memory lines 214-241: checkpoint, Whisper to the
\* GPU, infer_min clamp, dynamic image size, checkpoint
PBEntry ==
    /\ b_pc = "pb_entry"
    /\ \E m1, m2, m3 \in AllocSamples(total_mib) :
          /\ cleaned' = (cleaned \/ MonitorCleans(total_mib, m1) \/ MonitorCleans(total_mib, m3))
          /\ args_image_size' = IF DynamicImageSize(total_mib, m2) < args_image_size
                                THEN DynamicImageSize(total_mib, m2)
                                ELSE args_image_size
    /\ wav2vec_dev' = IF args_cpu_offload /\ wav2vec_dev = "cpu" THEN "cuda" ELSE wav2vec_dev
    /\ audio_len' = IF args_infer_min THEN Min(129, audio_len) ELSE audio_len
    /\ b_pc' = "infer"
    /\ UNCHANGED <<batch_index, args_cpu_offload, args_infer_min, total_mib,
                   original_image_size, calls, pb_result, dev_before, successful_generations>>
    /\ UNCHANGED <<loaded_audio_len, frames>>
    /\ UNCHANGED <<entry_image_size, raised_batches>>
    /\ UNCHANGED <<svars, cvars, lvars, wvars>>

\* a variant of lines 244-260 whose handler catches every exception
PBInferRetryAny ==
    /\ b_pc = "infer"
    /\ \E out \in {"ok", "OutOfMemoryError", "RuntimeError"} :
          /\ calls' = Append(calls, [image_size |-> args_image_size,
                                     audio_len |-> audio_len, outcome |-> out])
          /\ CASE out = "ok" ->
                    /\ \E m \in AllocSamples(total_mib) : cleaned' = MonitorCleans(total_mib, m)
                    /\ b_pc' = "post"
                    /\ UNCHANGED <<args_image_size, audio_len, original_image_size, pb_result>>
               [] out \in {"OutOfMemoryError", "RuntimeError"} ->
                    /\ cleaned' = TRUE
                    /\ original_image_size' = args_image_size
                    /\ args_image_size' = Max(128, args_image_size \div 2)
                    /\ audio_len' = Min(64, audio_len)
                    /\ b_pc' = "retry"
                    /\ UNCHANGED pb_result
    /\ UNCHANGED <<batch_index, args_cpu_offload, args_infer_min, total_mib,
                   wav2vec_dev, dev_before, successful_generations>>
    /\ UNCHANGED <<loaded_audio_len, frames>>
    /\ UNCHANGED <<entry_image_size, raised_batches>>
    /\ UNCHANGED <<svars, cvars, lvars, wvars>>

\* lines 244-260: first invocation of hunyuan_video_sampler.predict;
\* success runs the "After inference" checkpoint, OutOfMemoryError runs
\* cleanup_memory and downgrades, any other exception leaves the function
PBInfer ==
    /\ b_pc = "infer"
    /\ \E out \in {"ok", "OutOfMemoryError", "RuntimeError"} :
          /\ calls' = Append(calls, [image_size |-> args_image_size,
                                     audio_len |-> audio_len, outcome |-> out])
          /\ CASE out = "ok" ->
                    /\ \E m \in AllocSamples(total_mib) : cleaned' = MonitorCleans(total_mib, m)
                    /\ b_pc' = "post"
                    /\ UNCHANGED <<args_image_size, audio_len, original_image_size, pb_result>>
               [] out = "OutOfMemoryError" ->
                    /\ cleaned' = TRUE
                    /\ original_image_size' = args_image_size
                    /\ args_image_size' = Max(128, args_image_size \div 2)
                    /\ audio_len' = Min(64, audio_len)
                    /\ b_pc' = "retry"
                    /\ UNCHANGED pb_result
               [] out = "RuntimeError" ->
                    /\ cleaned' = FALSE
                    /\ pb_result' = [kind |-> "raise", exc |-> out]
                    /\ b_pc' = "pb_raised"
                    /\ UNCHANGED <<args_image_size, audio_len, original_image_size>>
    /\ UNCHANGED <<batch_index, args_cpu_offload, args_infer_min, total_mib,
                   wav2vec_dev, dev_before, successful_generations>>
    /\ UNCHANGED <<loaded_audio_len, frames>>
    /\ UNCHANGED <<entry_image_size, raised_batches>>
    /\ UNCHANGED <<svars, cvars, lvars, wvars>>

\* lines 262-269: the retry; except re-raises e2, finally restores image_size
PBRetry ==
    /\ b_pc = "retry"
    /\ \E out \in {"ok", "OutOfMemoryError", "RuntimeError"} :
          /\ calls' = Append(calls, [image_size |-> args_image_size,
                                     audio_len |-> audio_len, outcome |-> out])
          /\ IF out = "ok"
             THEN /\ b_pc' = "post"
                  /\ UNCHANGED pb_result
             ELSE /\ pb_result' = [kind |-> "raise", exc |-> out]
                  /\ b_pc' = "pb_raised"
    /\ cleaned' = FALSE
    /\ args_image_size' = original_image_size
    /\ UNCHANGED <<batch_index, args_cpu_offload, args_infer_min, total_mib,
                   wav2vec_dev, audio_len, original_image_size, dev_before,
                   successful_generations>>
    /\ UNCHANGED <<loaded_audio_len, frames>>
    /\ UNCHANGED <<entry_image_size, raised_batches>>
    /\ UNCHANGED <<svars, cvars, lvars, wvars>>

\* a variant of line 278 that keeps every frame the model produced
PBFinishNoTrim ==
    /\ b_pc = "post"
    /\ wav2vec_dev' = IF args_cpu_offload THEN "cpu" ELSE wav2vec_dev
    /\ cleaned' = TRUE
    /\ \E extra \in ExtraFrames :
          frames' = [produced |-> loaded_audio_len + extra,
                     kept |-> loaded_audio_len + extra]
    /\ pb_result' = [kind |-> "return", path |-> batch_index]
    /\ b_pc' = "pb_returned"
    /\ UNCHANGED <<batch_index, args_image_size, args_cpu_offload, args_infer_min,
                   total_mib, audio_len, original_image_size, calls, dev_before,
                   successful_generations>>
    /\ UNCHANGED loaded_audio_len
    /\ UNCHANGED <<entry_image_size, raised_batches>>
    /\ UNCHANGED <<svars, cvars, lvars, wvars>>

\* lines 271-310: Whisper back to the CPU, trim the samples to audio_len frames
\* (line 278: sample[:, :, :audio_len] keeps min(produced, audio_len)), convert,
\* cleanup_memory (line 288), save, cleanup_memory (line 307), return the path
PBFinish ==
    /\ b_pc = "post"
    /\ wav2vec_dev' = IF args_cpu_offload THEN "cpu" ELSE wav2vec_dev
    /\ cleaned' = TRUE
    /\ \E extra \in ExtraFrames :
          frames' = [produced |-> loaded_audio_len + extra,
                     kept |-> Min(loaded_audio_len + extra, audio_len)]
    /\ pb_result' = [kind |-> "return", path |-> batch_index]
    /\ b_pc' = "pb_returned"
    /\ UNCHANGED <<batch_index, args_image_size, args_cpu_offload, args_infer_min,
                   total_mib, audio_len, original_image_size, calls, dev_before,
                   successful_generations>>
    /\ UNCHANGED loaded_audio_len
    /\ UNCHANGED <<entry_image_size, raised_batches>>
    /\ UNCHANGED <<svars, cvars, lvars, wvars>>

\* main lines 385-403: count the success, checkpoint, periodic cleanup
MainSuccess ==
    /\ b_pc = "pb_returned"
    /\ successful_generations' = successful_generations + 1
    /\ \E m \in AllocSamples(total_mib) :
          cleaned' = (cleaned \/ MonitorCleans(total_mib, m) \/ batch_index % 3 = 0)
    /\ b_pc' = "loop"
    /\ UNCHANGED <<batch_index, args_image_size, args_cpu_offload, args_infer_min,
                   total_mib, wav2vec_dev, audio_len, original_image_size, calls,
                   pb_result, dev_before>>
    /\ UNCHANGED <<loaded_audio_len, frames>>
    /\ UNCHANGED <<entry_image_size, raised_batches>>
    /\ UNCHANGED <<svars, cvars, lvars, wvars>>

\* a variant of lines 392-395 that leaves the loop
MainExceptBreak ==
    /\ b_pc = "pb_raised"
    /\ b_pc' = "done"
    /\ raised_batches' = raised_batches + 1
    /\ UNCHANGED <<batch_index, args_image_size, args_cpu_offload, args_infer_min,
                   total_mib, wav2vec_dev, audio_len, original_image_size, calls,
                   pb_result, dev_before, cleaned, successful_generations>>
    /\ UNCHANGED <<loaded_audio_len, frames>>
    /\ UNCHANGED entry_image_size
    /\ UNCHANGED <<svars, cvars, lvars, wvars>>

\* main lines 392-395: except Exception: print, continue
MainExcept ==
    /\ b_pc = "pb_raised"
    /\ b_pc' = "loop"
    /\ raised_batches' = raised_batches + 1
    /\ UNCHANGED <<batch_index, args_image_size, args_cpu_offload, args_infer_min,
                   total_mib, wav2vec_dev, audio_len, original_image_size, calls,
                   pb_result, dev_before, cleaned, successful_generations>>
    /\ UNCHANGED <<loaded_audio_len, frames>>
    /\ UNCHANGED entry_image_size
    /\ UNCHANGED <<svars, cvars, lvars, wvars>>

\* main lines 405-414: the loader is exhausted, final statistics
MainDone ==
    /\ b_pc = "loop"
    /\ batch_index = NumBatches
    /\ b_pc' = "done"
    /\ UNCHANGED <<batch_index, args_image_size, args_cpu_offload, args_infer_min,
                   total_mib, wav2vec_dev, audio_len, original_image_size, calls,
                   pb_result, dev_before, cleaned, successful_generations>>
    /\ UNCHANGED <<loaded_audio_len, frames>>
    /\ UNCHANGED <<entry_image_size, raised_batches>>
    /\ UNCHANGED <<svars, cvars, lvars, wvars>>

BatchNext ==
    \/ MainFetch
    \/ PBEntry
    \/ PBInfer
    \/ PBRetry
    \/ PBFinish
    \/ MainSuccess
    \/ MainExcept
    \/ MainDone

\* =====================================================================
\*  the two generation programs side by side
\* =====================================================================

\* one of the two programs that generate a video is started: the API server
\* (fastapi_server.py, the values of ServerInit) or the batch runner
\* (low_memory_inference.py main, the values of BatchInit); the threads of
\* a server that was not started are "off"
ProgramsInit ==
    /\ \/ /\ sp_size \in {1, 2}
          /\ w_pc = IF sp_size > 1 THEN "w_loop" ELSE "absent"
          /\ pc = [t \in Threads |-> "idle"]
          /\ b_pc = "off"
          /\ total_mib = 6 * GiB
          /\ args_image_size = 256
          /\ args_cpu_offload = TRUE
          /\ args_infer_min = TRUE
       \/ /\ sp_size = 1
          /\ w_pc = "absent"
          /\ pc = [t \in Threads |-> "off"]
          /\ b_pc = "loop"
          /\ total_mib \in Capacities
          /\ \E c \in CliImageSizes : args_image_size = LoadImageSize(c, total_mib)
          /\ \E c \in CliFlags : args_cpu_offload = LoadCpuOffload(c)
          /\ \E c \in CliFlags : args_infer_min = LoadInferMin(c, total_mib)
    /\ batch_index = 0
    /\ wav2vec_dev = IF args_cpu_offload THEN "cpu" ELSE "cuda"
    /\ audio_len = 0
    /\ original_image_size = 0
    /\ calls = <<>>
    /\ pb_result = NoResult
    /\ dev_before = wav2vec_dev
    /\ cleaned = TRUE
    /\ successful_generations = 0
    /\ loaded_audio_len = 0
    /\ frames = [produced |-> 0, kept |-> 0]
    /\ entry_image_size = 0
    /\ raised_batches = 0
    /\ c_pc = "off"
    /\ cfg = [fn |-> "none"]
    /\ current_vram_mode = "none"
    /\ l_pc = "off"
    /\ mmgp_available = FALSE
    /\ loaded_models = NoModels
    /\ transformer_dev = "none"
    /\ align_dev = "none"
    /\ cli_args = [image_size |-> NoSize, cpu_offload |-> None,
                   mixed_precision |-> None, infer_min |-> None]
    /\ args_mixed_precision = TRUE
    /\ last_cleanup = "none"
    /\ processing_lock = FALSE
    /\ pipeline = FALSE
    /\ g_pc = [t \in Threads |-> "off"]
    /\ g_in = [t \in Threads |-> [image |-> None, audio |-> None]]
    /\ g_res = [t \in Threads |-> "none"]
    /\ rlock = [owner |-> NoThread, count |-> 0]
    /\ req = [t \in Threads |-> [image_path |-> None, audio_path |-> None]]
    /\ is_acquire = [t \in Threads |-> FALSE]
    /\ raised = [t \in Threads |-> FALSE]
    /\ res = [t \in Threads |-> NoRes]
    /\ nPre = [t \in Threads |-> 0]
    /\ nBcast = [t \in Threads |-> 0]
    /\ nModel = [t \in Threads |-> 0]
    /\ wrap_audio_len = [t \in Threads |-> 0]
    /\ wrap_frames = [t \in Threads |-> [produced |-> 0, kept |-> 0]]
    /\ w_batch = None

\* a step of the program that was started
ProgramsNext ==
    \/ ServerNext
    \/ BatchNext

\* =====================================================================
\*  the configuration and monitoring functions, one call at a time
\* =====================================================================

\* nothing has been called; the server and the batch runner are at rest
ConfigInit ==
    /\ c_pc = "ready"
    /\ cfg = [fn |-> "none"]
    /\ current_vram_mode = "none"
    /\ sp_size = 1
    /\ rlock = [owner |-> NoThread, count |-> 0]
    /\ pc = [t \in Threads |-> "idle"]
    /\ req = [t \in Threads |-> [image_path |-> None, audio_path |-> None]]
    /\ is_acquire = [t \in Threads |-> FALSE]
    /\ raised = [t \in Threads |-> FALSE]
    /\ res = [t \in Threads |-> NoRes]
    /\ nPre = [t \in Threads |-> 0]
    /\ nBcast = [t \in Threads |-> 0]
    /\ nModel = [t \in Threads |-> 0]
    /\ wrap_audio_len = [t \in Threads |-> 0]
    /\ wrap_frames = [t \in Threads |-> [produced |-> 0, kept |-> 0]]
    /\ w_batch = None
    /\ w_pc = "absent"
    /\ b_pc = "off"
    /\ batch_index = 0
    /\ args_image_size = 256
    /\ args_cpu_offload = TRUE
    /\ args_infer_min = TRUE
    /\ total_mib = 6 * GiB
    /\ wav2vec_dev = "cpu"
    /\ audio_len = 0
    /\ original_image_size = 0
    /\ calls = <<>>
    /\ pb_result = NoResult
    /\ dev_before = "cpu"
    /\ cleaned = TRUE
    /\ successful_generations = 0
    /\ loaded_audio_len = 0
    /\ frames = [produced |-> 0, kept |-> 0]
    /\ entry_image_size = 0
    /\ raised_batches = 0
    /\ l_pc = "off"
    /\ mmgp_available = FALSE
    /\ loaded_models = NoModels
    /\ transformer_dev = "none"
    /\ align_dev = "none"
    /\ cli_args = [image_size |-> NoSize, cpu_offload |-> None,
                   mixed_precision |-> None, infer_min |-> None]
    /\ args_mixed_precision = TRUE
    /\ last_cleanup = "none"
    /\ processing_lock = FALSE
    /\ pipeline = FALSE
    /\ g_pc = [t \in Threads |-> "off"]
    /\ g_in = [t \in Threads |-> [image |-> None, audio |-> None]]
    /\ g_res = [t \in Threads |-> "none"]

\* web_demo.py detect_optimal_settings() under one environment
CallDetectOptimalSettings ==
    /\ c_pc = "ready"
    /\ \E vram_env \in VramModes, detection \in Detections, total \in ConfigCapacities,
          e_img \in ImageSizeEnv, e_len \in VideoLengthEnv, e_steps \in InferenceStepsEnv,
          e_batch \in BatchSizeEnv :
          LET out == DetectOptimalSettings(current_vram_mode, vram_env, detection, total,
                                           e_img, e_len, e_steps, e_batch)
          IN  /\ cfg' = [fn  |-> "detect_optimal_settings",
                         in  |-> [current |-> current_vram_mode, vram_mode |-> vram_env,
                                  detection |-> detection, total |-> total,
                                  image_size |-> e_img, video_length |-> e_len,
                                  inference_steps |-> e_steps, batch_size |-> e_batch],
                         out |-> out]
              /\ current_vram_mode' = out.vram_mode
    /\ c_pc' = "called"
    /\ UNCHANGED <<svars, bvars, lvars, wvars>>

\* config_minimal.py get_recommended_config()
CallGetRecommendedConfig ==
    /\ c_pc = "ready"
    /\ \E detection \in Detections, total \in ConfigCapacities :
          cfg' = [fn  |-> "get_recommended_config",
                  in  |-> [detection |-> detection, total |-> total],
                  out |-> [raised |-> FALSE,
                           preset |-> RecommendedPreset(detection, total)]]
    /\ c_pc' = "called"
    /\ UNCHANGED current_vram_mode
    /\ UNCHANGED <<svars, bvars, lvars, wvars>>

\* config_minimal.py get_dynamic_memory_config()
CallGetDynamicMemoryConfig ==
    /\ c_pc = "ready"
    /\ \E detection \in Detections, total \in ConfigCapacities :
          \E alloc \in DynamicAllocs(total) :
             cfg' = [fn  |-> "get_dynamic_memory_config",
                     in  |-> [detection |-> detection, total |-> total, alloc |-> alloc],
                     out |-> GetDynamicMemoryConfig(detection, total, alloc)]
    /\ c_pc' = "called"
    /\ UNCHANGED current_vram_mode
    /\ UNCHANGED <<svars, bvars, lvars, wvars>>

\* low_memory_inference.py monitor_memory_usage(step_name)
CallMonitorMemoryUsage ==
    /\ c_pc = "ready"
    /\ \E cuda \in BOOLEAN, total \in MonitorCapacities :
          \E alloc \in MonitorAllocs(total) :
             cfg' = [fn  |-> "monitor_memory_usage",
                     in  |-> [cuda |-> cuda, total |-> total, alloc |-> alloc],
                     out |-> MonitorMemoryUsage(cuda, total, alloc)]
    /\ c_pc' = "called"
    /\ UNCHANGED current_vram_mode
    /\ UNCHANGED <<svars, bvars, lvars, wvars>>

\* config_minimal.py monitor_and_cleanup_memory()
CallMonitorAndCleanupMemory ==
    /\ c_pc = "ready"
    /\ \E cuda \in BOOLEAN, total \in MonitorCapacities :
          \E alloc \in MonitorAllocs(total) :
             cfg' = [fn  |-> "monitor_and_cleanup_memory",
                     in  |-> [cuda |-> cuda, total |-> total, alloc |-> alloc],
                     out |-> MonitorAndCleanupMemory(cuda, total, alloc)]
    /\ c_pc' = "called"
    /\ UNCHANGED current_vram_mode
    /\ UNCHANGED <<svars, bvars, lvars, wvars>>

\* the caller has taken the result and may call again
ConfigReturn ==
    /\ c_pc = "called"
    /\ c_pc' = "ready"
    /\ cfg' = [fn |-> "none"]
    /\ UNCHANGED current_vram_mode
    /\ UNCHANGED <<svars, bvars, lvars, wvars>>

ConfigNext ==
    \/ CallDetectOptimalSettings
    \/ CallGetRecommendedConfig
    \/ CallGetDynamicMemoryConfig
    \/ CallMonitorMemoryUsage
    \/ CallMonitorAndCleanupMemory
    \/ ConfigReturn

\* =====================================================================
\*  load_models_with_offloading (low_memory_inference.py lines 104-209)
\* =====================================================================

\* MMGPMemoryManager.load_model_with_mmgp (mmgp_utils.py lines 31-59): the
\* registry after a call. Line 53 is the only place that adds to
\* loaded_models, reached when the library is present and its loader did
\* not raise; dev is where the library's loader left the new model.
\* load_models_with_offloading never calls this method.
LoadModelWithMmgp(registry, model_path, available, loaderOk, dev) ==
    IF available /\ loaderOk THEN [registry EXCEPT ![model_path] = dev] ELSE registry

\* MMGPMemoryManager.emergency_cleanup (mmgp_utils.py lines 155-175): every
\* model of the registry is replaced by model.cpu(); nothing else is moved
EmergencyCleanup(registry) ==
    [k \in DOMAIN registry |-> IF registry[k] = "absent" THEN "absent" ELSE "cpu"]

\* the registry after a checkpoint that ran cleanup action act
\* (monitor_memory_usage lines 83-102, monitor_memory lines 140-153)
RegistryAfter(registry, act) ==
    IF act = "emergency" THEN EmergencyCleanup(registry) ELSE registry

\* main() has parsed the arguments and calls load_models_with_offloading;
\* memory_manager.loaded_models is the empty dict of __init__
LoadInit ==
    /\ l_pc = "start"
    /\ mmgp_available \in BOOLEAN
    /\ loaded_models = NoModels
    /\ transformer_dev = "none"
    /\ align_dev = "none"
    /\ cli_args \in [image_size : CliImageSizes, cpu_offload : CliFlags,
                    mixed_precision : CliFlags, infer_min : CliFlags]
    /\ args_mixed_precision = FALSE
    /\ last_cleanup = "none"
    /\ processing_lock = FALSE
    /\ pipeline = FALSE
    /\ g_pc = [t \in Threads |-> "off"]
    /\ g_in = [t \in Threads |-> [image |-> None, audio |-> None]]
    /\ g_res = [t \in Threads |-> "none"]
    /\ total_mib \in Capacities
    /\ wav2vec_dev = "none"
    /\ args_image_size = NoSize
    /\ args_cpu_offload = FALSE
    /\ args_infer_min = FALSE
    /\ cleaned = FALSE
    /\ b_pc = "off"
    /\ batch_index = 0
    /\ audio_len = 0
    /\ original_image_size = 0
    /\ calls = <<>>
    /\ pb_result = NoResult
    /\ dev_before = "cpu"
    /\ successful_generations = 0
    /\ loaded_audio_len = 0
    /\ frames = [produced |-> 0, kept |-> 0]
    /\ entry_image_size = 0
    /\ raised_batches = 0
    /\ c_pc = "off"
    /\ cfg = [fn |-> "none"]
    /\ current_vram_mode = "none"
    /\ sp_size = 1
    /\ rlock = [owner |-> NoThread, count |-> 0]
    /\ pc = [t \in Threads |-> "idle"]
    /\ req = [t \in Threads |-> [image_path |-> None, audio_path |-> None]]
    /\ is_acquire = [t \in Threads |-> FALSE]
    /\ raised = [t \in Threads |-> FALSE]
    /\ res = [t \in Threads |-> NoRes]
    /\ nPre = [t \in Threads |-> 0]
    /\ nBcast = [t \in Threads |-> 0]
    /\ nModel = [t \in Threads |-> 0]
    /\ wrap_audio_len = [t \in Threads |-> 0]
    /\ wrap_frames = [t \in Threads |-> [produced |-> 0, kept |-> 0]]
    /\ w_batch = None
    /\ w_pc = "absent"

\* lines 109-126: the preset fills the arguments the command line left
\* open; checkpoint "Before model loading"
LoadApplyPreset ==
    /\ l_pc = "start"
    /\ args_image_size' = LoadImageSize(cli_args.image_size, total_mib)
    /\ args_cpu_offload' = LoadCpuOffload(cli_args.cpu_offload)
    /\ args_mixed_precision' = LoadMixedPrecision(cli_args.mixed_precision)
    /\ args_infer_min' = LoadInferMin(cli_args.infer_min, total_mib)
    /\ \E alloc \in AllocSamples(total_mib) :
          /\ last_cleanup' = MonitorMemoryUsage(TRUE, total_mib, alloc)
          /\ cleaned' = (cleaned \/ last_cleanup' # "none")
          /\ loaded_models' = RegistryAfter(loaded_models, last_cleanup')
    /\ l_pc' = "main_model"
    /\ UNCHANGED <<mmgp_available, transformer_dev, align_dev, cli_args>>
    /\ UNCHANGED <<b_pc, batch_index, total_mib, wav2vec_dev, audio_len,
                   original_image_size, calls, pb_result, dev_before,
                   successful_generations, loaded_audio_len, frames,
                   entry_image_size, raised_batches>>
    /\ UNCHANGED <<svars, cvars, wvars>>

\* lines 128-149: HunyuanVideoSampler.from_pretrained(..., device=device),
\* called again with the same arguments by the except branch when the first
\* call raises; checkpoint "After main model loading". When the second call
\* raises too the exception leaves load_models_with_offloading: no sampler,
\* no further checkpoint. The sampler is not an entry of loaded_models, so
\* no cleanup of the checkpoint moves it.
LoadMainModel ==
    /\ l_pc = "main_model"
    /\ \E firstOk \in BOOLEAN, secondOk \in BOOLEAN, alloc \in AllocSamples(total_mib) :
          IF firstOk \/ secondOk
          THEN /\ last_cleanup' = MonitorMemoryUsage(TRUE, total_mib, alloc)
               /\ cleaned' = (cleaned \/ last_cleanup' # "none")
               /\ loaded_models' = RegistryAfter(loaded_models, last_cleanup')
               /\ transformer_dev' = "cuda"
               /\ l_pc' = "offload"
          ELSE /\ l_pc' = "raised"
               /\ UNCHANGED <<last_cleanup, cleaned, loaded_models, transformer_dev>>
    /\ UNCHANGED <<mmgp_available, align_dev, cli_args, args_mixed_precision>>
    /\ UNCHANGED <<b_pc, batch_index, args_image_size, args_cpu_offload, args_infer_min,
                   total_mib, wav2vec_dev, audio_len, original_image_size, calls, pb_result,
                   dev_before, successful_generations, loaded_audio_len, frames,
                   entry_image_size, raised_batches>>
    /\ UNCHANGED <<svars, cvars, wvars>>

\* lines 152-177: with args.cpu_offload, memory_manager.offload_to_cpu
\* (mmgp_utils.py lines 115-138): the mmgp library takes the transformer
\* under its management; without the library, or when its call raises,
\* the transformer is moved with .cpu(). When .cpu() raises the except of
\* line 161 tries diffusers' apply_group_offloading, and when that fails
\* too (line 175) the transformer stays where it was. Then checkpoint
\* "After CPU offloading".
LoadOffload ==
    /\ l_pc = "offload"
    /\ \E mmgp_ok \in BOOLEAN, cpu_ok \in BOOLEAN, diffusers_ok \in BOOLEAN,
          alloc \in AllocSamples(total_mib) :
          /\ transformer_dev' =
                IF ~args_cpu_offload THEN transformer_dev
                ELSE IF mmgp_available /\ mmgp_ok THEN "mmgp"
                ELSE IF cpu_ok THEN "cpu"
                ELSE IF diffusers_ok THEN "group_offload"
                ELSE transformer_dev
          /\ last_cleanup' = MonitorMemoryUsage(TRUE, total_mib, alloc)
          /\ cleaned' = (cleaned \/ last_cleanup' # "none")
          /\ loaded_models' = RegistryAfter(loaded_models, last_cleanup')
    /\ l_pc' = "whisper"
    /\ UNCHANGED <<mmgp_available, align_dev, cli_args, args_mixed_precision>>
    /\ UNCHANGED <<b_pc, batch_index, args_image_size, args_cpu_offload, args_infer_min,
                   total_mib, wav2vec_dev, audio_len, original_image_size, calls, pb_result,
                   dev_before, successful_generations, loaded_audio_len, frames,
                   entry_image_size, raised_batches>>
    /\ UNCHANGED <<svars, cvars, wvars>>

\* lines 180-193: Whisper is loaded to the device and, with cpu_offload,
\* moved to the host at once; checkpoint "After Whisper loading". A
\* WhisperModel.from_pretrained that raises leaves the function.
LoadWhisper ==
    /\ l_pc = "whisper"
    /\ \E loadOk \in BOOLEAN, alloc \in AllocSamples(total_mib) :
          IF loadOk
          THEN /\ last_cleanup' = MonitorMemoryUsage(TRUE, total_mib, alloc)
               /\ cleaned' = (cleaned \/ last_cleanup' # "none")
               /\ loaded_models' = RegistryAfter(loaded_models, last_cleanup')
               /\ wav2vec_dev' = IF args_cpu_offload THEN "cpu" ELSE "cuda"
               /\ l_pc' = "face_align"
          ELSE /\ l_pc' = "raised"
               /\ UNCHANGED <<last_cleanup, cleaned, loaded_models, wav2vec_dev>>
    /\ UNCHANGED <<mmgp_available, transformer_dev, align_dev, cli_args,
                   args_mixed_precision>>
    /\ UNCHANGED <<b_pc, batch_index, args_image_size, args_cpu_offload, args_infer_min,
                   total_mib, audio_len, original_image_size, calls, pb_result,
                   dev_before, successful_generations, loaded_audio_len, frames,
                   entry_image_size, raised_batches>>
    /\ UNCHANGED <<svars, cvars, wvars>>

\* lines 196-201: AlignImage("cuda", ...); checkpoint "After face alignment
\* loading". An AlignImage constructor that raises leaves the function.
LoadFaceAlign ==
    /\ l_pc = "face_align"
    /\ \E loadOk \in BOOLEAN, alloc \in AllocSamples(total_mib) :
          IF loadOk
          THEN /\ last_cleanup' = MonitorMemoryUsage(TRUE, total_mib, alloc)
               /\ cleaned' = (cleaned \/ last_cleanup' # "none")
               /\ loaded_models' = RegistryAfter(loaded_models, last_cleanup')
               /\ align_dev' = "cuda"
               /\ l_pc' = "finish"
          ELSE /\ l_pc' = "raised"
               /\ UNCHANGED <<last_cleanup, cleaned, loaded_models, align_dev>>
    /\ UNCHANGED <<mmgp_available, transformer_dev, cli_args, args_mixed_precision>>
    /\ UNCHANGED <<b_pc, batch_index, args_image_size, args_cpu_offload, args_infer_min,
                   total_mib, wav2vec_dev, audio_len, original_image_size, calls, pb_result,
                   dev_before, successful_generations, loaded_audio_len, frames,
                   entry_image_size, raised_batches>>
    /\ UNCHANGED <<svars, cvars, wvars>>

\* lines 203-204: AutoFeatureExtractor.from_pretrained(whisper_path); a call
\* that raises leaves the function before the cleanup
LoadFeatureExtractor ==
    /\ l_pc = "finish"
    /\ \E loadOk \in BOOLEAN :
          l_pc' = IF loadOk THEN "cleanup" ELSE "raised"
    /\ UNCHANGED <<mmgp_available, loaded_models, transformer_dev, align_dev, cli_args,
                   args_mixed_precision, last_cleanup>>
    /\ UNCHANGED bvars
    /\ UNCHANGED <<svars, cvars, wvars>>

\* line 206: cleanup_memory() (lines 77-81): memory_manager.aggressive_cleanup()
\* runs gc.collect and empty_cache, then time.sleep(0.1); the registry is
\* not touched
LoadCleanup ==
    /\ l_pc = "cleanup"
    /\ cleaned' = TRUE
    /\ l_pc' = "after_cleanup"
    /\ UNCHANGED <<mmgp_available, loaded_models, transformer_dev, align_dev, cli_args,
                   args_mixed_precision, last_cleanup>>
    /\ UNCHANGED <<b_pc, batch_index, args_image_size, args_cpu_offload, args_infer_min,
                   total_mib, wav2vec_dev, audio_len, original_image_size, calls, pb_result,
                   dev_before, successful_generations, loaded_audio_len, frames,
                   entry_image_size, raised_batches>>
    /\ UNCHANGED <<svars, cvars, wvars>>

\* lines 207-209: checkpoint "After cleanup", return the four components
LoadFinish ==
    /\ l_pc = "after_cleanup"
    /\ \E alloc \in AllocSamples(total_mib) :
          /\ last_cleanup' = MonitorMemoryUsage(TRUE, total_mib, alloc)
          /\ cleaned' = (cleaned \/ last_cleanup' # "none")
          /\ loaded_models' = RegistryAfter(loaded_models, last_cleanup')
    /\ l_pc' = "loaded"
    /\ UNCHANGED <<mmgp_available, transformer_dev, align_dev, cli_args,
                   args_mixed_precision>>
    /\ UNCHANGED <<b_pc, batch_index, args_image_size, args_cpu_offload, args_infer_min,
                   total_mib, wav2vec_dev, audio_len, original_image_size, calls, pb_result,
                   dev_before, successful_generations, loaded_audio_len, frames,
                   entry_image_size, raised_batches>>
    /\ UNCHANGED <<svars, cvars, wvars>>

\* memory_manager.load_model_with_mmgp(model_path, model_class) called on
\* the module-level singleton (mmgp_utils.py lines 31-59, 179-182) by a user
\* of the module, at any point of loading
CallLoadModelWithMmgp ==
    /\ l_pc # "off"
    /\ \E model_path \in ModelPaths, loaderOk \in BOOLEAN, dev \in {"cuda", "cpu"} :
          loaded_models' = LoadModelWithMmgp(loaded_models, model_path, mmgp_available,
                                             loaderOk, dev)
    /\ UNCHANGED <<l_pc, mmgp_available, transformer_dev, align_dev, cli_args,
                   args_mixed_precision, last_cleanup>>
    /\ UNCHANGED bvars
    /\ UNCHANGED <<svars, cvars, wvars>>

LoadNext ==
    \/ LoadApplyPreset
    \/ LoadMainModel
    \/ LoadOffload
    \/ LoadWhisper
    \/ LoadFaceAlign
    \/ LoadFeatureExtractor
    \/ LoadCleanup
    \/ LoadFinish
    \/ CallLoadModelWithMmgp

\* =====================================================================
\*  web_demo.py generate_avatar_video (lines 234-353)
\* =====================================================================

\* the image and audio arguments Gradio passes: None or an upload
Uploads == {None, "upload"}
\* how a call of generate_avatar_video ends
RejectedResults == {"busy", "no_image", "no_audio"}
BodyResults == {"ok", "init_failed", "audio_too_long", "exception"}
\* how a call of initialize_pipeline from its button ends
ButtonResults == {"btn_ok", "btn_failed", "btn_already"}

\* the environment and the accelerator probe a call of
\* detect_optimal_settings of the demo can meet
WebVramModes == {"auto", "low"}
WebCapacities == {6 * GiB}
\* detect_optimal_settings (lines 49-153) as the handlers of the demo call
\* it: its possible results when the global holds current
WebDetectOutcomes(current) ==
    {DetectOptimalSettings(current, v, d, total, e_img, Unset, Unset, Unset) :
        v \in WebVramModes, d \in Detections, total \in WebCapacities,
        e_img \in {Unset, Malformed}}

\* the demo is up: no call is running, the pipeline is not initialised
WebInit ==
    /\ processing_lock = FALSE
    /\ pipeline = FALSE
    /\ g_pc = [t \in Threads |-> "idle"]
    /\ g_in = [t \in Threads |-> [image |-> None, audio |-> None]]
    /\ g_res = [t \in Threads |-> "none"]
    /\ sp_size = 1
    /\ rlock = [owner |-> NoThread, count |-> 0]
    /\ pc = [t \in Threads |-> "idle"]
    /\ req = [t \in Threads |-> [image_path |-> None, audio_path |-> None]]
    /\ is_acquire = [t \in Threads |-> FALSE]
    /\ raised = [t \in Threads |-> FALSE]
    /\ res = [t \in Threads |-> NoRes]
    /\ nPre = [t \in Threads |-> 0]
    /\ nBcast = [t \in Threads |-> 0]
    /\ nModel = [t \in Threads |-> 0]
    /\ wrap_audio_len = [t \in Threads |-> 0]
    /\ wrap_frames = [t \in Threads |-> [produced |-> 0, kept |-> 0]]
    /\ w_batch = None
    /\ w_pc = "absent"
    /\ b_pc = "off"
    /\ batch_index = 0
    /\ args_image_size = 256
    /\ args_cpu_offload = TRUE
    /\ args_infer_min = TRUE
    /\ total_mib = 6 * GiB
    /\ wav2vec_dev = "cpu"
    /\ audio_len = 0
    /\ original_image_size = 0
    /\ calls = <<>>
    /\ pb_result = NoResult
    /\ dev_before = "cpu"
    /\ cleaned = TRUE
    /\ successful_generations = 0
    /\ loaded_audio_len = 0
    /\ frames = [produced |-> 0, kept |-> 0]
    /\ entry_image_size = 0
    /\ raised_batches = 0
    /\ c_pc = "off"
    /\ cfg = [fn |-> "none"]
    /\ current_vram_mode = "none"
    /\ l_pc = "off"
    /\ mmgp_available = FALSE
    /\ loaded_models = NoModels
    /\ transformer_dev = "none"
    /\ align_dev = "none"
    /\ cli_args = [image_size |-> NoSize, cpu_offload |-> None,
                   mixed_precision |-> None, infer_min |-> None]
    /\ args_mixed_precision = TRUE
    /\ last_cleanup = "none"

\* Gradio runs the click handler (line 508) on a worker thread
GCall(t) ==
    /\ g_pc[t] \in {"idle", "returned"}
    /\ \E i \in Uploads, a \in Uploads :
          g_in' = [g_in EXCEPT ![t] = [image |-> i, audio |-> a]]
    /\ g_res' = [g_res EXCEPT ![t] = "none"]
    /\ g_pc' = [g_pc EXCEPT ![t] = "check"]
    /\ UNCHANGED <<processing_lock, pipeline>>
    /\ UNCHANGED <<svars, bvars, cvars, lvars>>

\* lines 238-239: if processing_lock: return "already in progress"
GCheckLock(t) ==
    /\ g_pc[t] = "check"
    /\ IF processing_lock
       THEN /\ g_res' = [g_res EXCEPT ![t] = "busy"]
            /\ g_pc' = [g_pc EXCEPT ![t] = "returned"]
       ELSE /\ g_pc' = [g_pc EXCEPT ![t] = "validate"]
            /\ UNCHANGED g_res
    /\ UNCHANGED <<processing_lock, pipeline, g_in>>
    /\ UNCHANGED <<svars, bvars, cvars, lvars>>

\* lines 241-247: the two None checks, then processing_lock = True
GValidateAndLock(t) ==
    /\ g_pc[t] = "validate"
    /\ IF g_in[t].image = None
       THEN /\ g_res' = [g_res EXCEPT ![t] = "no_image"]
            /\ g_pc' = [g_pc EXCEPT ![t] = "returned"]
            /\ UNCHANGED processing_lock
       ELSE IF g_in[t].audio = None
       THEN /\ g_res' = [g_res EXCEPT ![t] = "no_audio"]
            /\ g_pc' = [g_pc EXCEPT ![t] = "returned"]
            /\ UNCHANGED processing_lock
       ELSE /\ processing_lock' = TRUE
            /\ g_pc' = [g_pc EXCEPT ![t] = "init"]
            /\ UNCHANGED g_res
    /\ UNCHANGED <<pipeline, g_in>>
    /\ UNCHANGED <<svars, bvars, cvars, lvars>>

\* lines 249-252: the call reads the global pipeline; when it is None it
\* reports progress and calls initialize_pipeline
GInitPipeline(t) ==
    /\ g_pc[t] = "init"
    /\ g_pc' = [g_pc EXCEPT ![t] = IF pipeline THEN "settings" ELSE "ip_check"]
    /\ UNCHANGED <<processing_lock, pipeline, g_in, g_res>>
    /\ UNCHANGED <<svars, bvars, cvars, lvars>>

\* Gradio runs the handler of the Initialize Pipeline button (lines
\* 520-523) on a worker thread: initialize_pipeline() with no argument
ICall(t) ==
    /\ g_pc[t] \in {"idle", "returned"}
    /\ g_in' = [g_in EXCEPT ![t] = [image |-> None, audio |-> None]]
    /\ g_res' = [g_res EXCEPT ![t] = "none"]
    /\ g_pc' = [g_pc EXCEPT ![t] = "b_check"]
    /\ UNCHANGED <<processing_lock, pipeline>>
    /\ UNCHANGED <<svars, bvars, cvars, lvars>>

\* thread t runs initialize_pipeline for the button, not for a generation
ByButton(t) == g_pc[t] \in {"b_check", "b_settings", "b_assign", "b_info"}

\* initialize_pipeline has returned a message with "failed" in it: the
\* button shows it; generate_avatar_video returns it at line 254, from
\* inside its try
InitializeFailed(t) ==
    IF ByButton(t)
    THEN /\ g_res' = [g_res EXCEPT ![t] = "btn_failed"]
         /\ g_pc' = [g_pc EXCEPT ![t] = "returned"]
    ELSE /\ g_res' = [g_res EXCEPT ![t] = "init_failed"]
         /\ g_pc' = [g_pc EXCEPT ![t] = "finally"]

\* initialize_pipeline lines 207-208: the pipeline is read again; "already
\* initialized" has no "failed" in it, so a generation goes on
InitializeCheck(t) ==
    /\ g_pc[t] \in {"ip_check", "b_check"}
    /\ IF pipeline
       THEN IF ByButton(t)
            THEN /\ g_res' = [g_res EXCEPT ![t] = "btn_already"]
                 /\ g_pc' = [g_pc EXCEPT ![t] = "returned"]
            ELSE /\ g_pc' = [g_pc EXCEPT ![t] = "settings"]
                 /\ UNCHANGED g_res
       ELSE /\ g_pc' = [g_pc EXCEPT ![t] = IF ByButton(t) THEN "b_settings"
                                                          ELSE "ip_settings"]
            /\ UNCHANGED g_res
    /\ UNCHANGED <<processing_lock, pipeline, g_in>>
    /\ UNCHANGED <<svars, bvars, cvars, lvars>>

\* initialize_pipeline lines 210-222: apply_memory_optimizations and
\* detect_optimal_settings (which stores current_vram_mode); an exception
\* of either is turned into the "failed" message by line 231. The thread
\* then waits in time.sleep(2) (line 225).
InitializeSettings(t) ==
    /\ g_pc[t] \in {"ip_settings", "b_settings"}
    /\ \E optOk \in BOOLEAN, out \in WebDetectOutcomes(current_vram_mode) :
          IF ~optOk
          THEN /\ InitializeFailed(t)
               /\ UNCHANGED current_vram_mode
          ELSE /\ current_vram_mode' = out.vram_mode
               /\ IF out.raised
                  THEN InitializeFailed(t)
                  ELSE /\ g_pc' = [g_pc EXCEPT ![t] = IF ByButton(t) THEN "b_assign"
                                                                     ELSE "ip_assign"]
                       /\ UNCHANGED g_res
    /\ UNCHANGED <<processing_lock, pipeline, g_in>>
    /\ UNCHANGED <<c_pc, cfg>>
    /\ UNCHANGED <<svars, bvars, lvars>>

\* initialize_pipeline line 227, after the sleep: pipeline = {...}
InitializeAssign(t) ==
    /\ g_pc[t] \in {"ip_assign", "b_assign"}
    /\ pipeline' = TRUE
    /\ g_pc' = [g_pc EXCEPT ![t] = IF ByButton(t) THEN "b_info" ELSE "ip_info"]
    /\ UNCHANGED <<processing_lock, g_in, g_res>>
    /\ UNCHANGED <<svars, bvars, cvars, lvars>>

\* initialize_pipeline lines 229-232: format_system_info() calls
\* detect_optimal_settings once more; when that raises the function
\* returns the "failed" message although the pipeline is set
InitializeInfo(t) ==
    /\ g_pc[t] \in {"ip_info", "b_info"}
    /\ \E out \in WebDetectOutcomes(current_vram_mode) :
          /\ current_vram_mode' = out.vram_mode
          /\ IF out.raised
             THEN InitializeFailed(t)
             ELSE IF ByButton(t)
                  THEN /\ g_res' = [g_res EXCEPT ![t] = "btn_ok"]
                       /\ g_pc' = [g_pc EXCEPT ![t] = "returned"]
                  ELSE /\ g_pc' = [g_pc EXCEPT ![t] = "settings"]
                       /\ UNCHANGED g_res
    /\ UNCHANGED <<processing_lock, pipeline, g_in>>
    /\ UNCHANGED <<c_pc, cfg>>
    /\ UNCHANGED <<svars, bvars, lvars>>

\* line 257: settings = detect_optimal_settings(); an exception is caught
\* by line 349
GSettings(t) ==
    /\ g_pc[t] = "settings"
    /\ \E out \in WebDetectOutcomes(current_vram_mode) :
          /\ current_vram_mode' = out.vram_mode
          /\ IF out.raised
             THEN /\ g_res' = [g_res EXCEPT ![t] = "exception"]
                  /\ g_pc' = [g_pc EXCEPT ![t] = "finally"]
             ELSE /\ g_pc' = [g_pc EXCEPT ![t] = "body"]
                  /\ UNCHANGED g_res
    /\ UNCHANGED <<processing_lock, pipeline, g_in>>
    /\ UNCHANGED <<c_pc, cfg>>
    /\ UNCHANGED <<svars, bvars, lvars>>

\* lines 260-349: memory check, files, audio length check (return at line
\* 293), generation, success (return at line 346) or except Exception
\* (line 349)
GBody(t) ==
    /\ g_pc[t] = "body"
    /\ \E r \in {"ok", "audio_too_long", "exception"} :
          g_res' = [g_res EXCEPT ![t] = r]
    /\ g_pc' = [g_pc EXCEPT ![t] = "finally"]
    /\ UNCHANGED <<processing_lock, pipeline, g_in>>
    /\ UNCHANGED <<svars, bvars, cvars, lvars>>

\* refresh_system_info (lines 389-391), bound to the refresh button and to
\* the page load (lines 515-518, 526-529): format_system_info calls
\* detect_optimal_settings
RefreshSystemInfo ==
    /\ \E out \in WebDetectOutcomes(current_vram_mode) :
          current_vram_mode' = out.vram_mode
    /\ UNCHANGED wvars
    /\ UNCHANGED <<c_pc, cfg>>
    /\ UNCHANGED <<svars, bvars, lvars>>

\* a variant of lines 351-352 that resets the flag after a success only
GFinallyOnSuccess(t) ==
    /\ g_pc[t] = "finally"
    /\ processing_lock' = IF g_res[t] = "ok" THEN FALSE ELSE processing_lock
    /\ g_pc' = [g_pc EXCEPT ![t] = "returned"]
    /\ UNCHANGED <<pipeline, g_in, g_res>>
    /\ UNCHANGED <<svars, bvars, cvars, lvars>>

\* lines 351-352: finally: processing_lock = False, then the pending return
GFinally(t) ==
    /\ g_pc[t] = "finally"
    /\ processing_lock' = FALSE
    /\ g_pc' = [g_pc EXCEPT ![t] = "returned"]
    /\ UNCHANGED <<pipeline, g_in, g_res>>
    /\ UNCHANGED <<svars, bvars, cvars, lvars>>

WebNext ==
    \/ \E t \in Threads :
          \/ GCall(t)
          \/ GCheckLock(t)
          \/ GValidateAndLock(t)
          \/ GInitPipeline(t)
          \/ ICall(t)
          \/ InitializeCheck(t)
          \/ InitializeSettings(t)
          \/ InitializeAssign(t)
          \/ InitializeInfo(t)
          \/ GSettings(t)
          \/ GBody(t)
          \/ GFinally(t)
    \/ RefreshSystemInfo

\* =====================================================================
\*  specifications
\* =====================================================================

\* the FastAPI server (rank 0 threads and the non-zero rank)
ServerSpec == ServerInit /\ [][ServerNext]_vars

\* either generation program: the server or the batch runner
ProgramsSpec == ProgramsInit /\ [][ProgramsNext]_vars

\* the low-memory batch runner
BatchSpec == BatchInit /\ [][BatchNext]_vars

\* the batch runner as a running process: main is sequential code, so a
\* step that is possible is eventually taken
BatchLiveSpec == BatchInit /\ [][BatchNext]_vars /\ WF_vars(BatchNext)

\* the configuration and monitoring functions
ConfigSpec == ConfigInit /\ [][ConfigNext]_vars

\* model loading of the low-memory runner
LoadSpec == LoadInit /\ [][LoadNext]_vars

\* the Gradio demo's generation handler
WebSpec == WebInit /\ [][WebNext]_vars

\* =====================================================================
\*  properties of the server
\* =====================================================================

\* thread t is executing predict_wrap
InWrap(t) == pc[t] \in {"wrap", "input", "preprocess", "pre_sync", "broadcast", "generate", "post"}

\* thread t is inside predict
InFlight(t) == pc[t] \notin {"idle", "returned"}

\* C1: at most one request executes predict_wrap at any time; a request inside
\* predict_wrap got TRUE from the non-blocking acquire and owns the lock for
\* as long as it is inside.
C1_SingleFlight ==
    /\ \A t1, t2 \in Threads : InWrap(t1) /\ InWrap(t2) => t1 = t2
    /\ \A t \in Threads : InWrap(t) => is_acquire[t] /\ rlock.owner = t /\ rlock.count = 1

\* one request is inside predict_wrap while another one has just been refused
C1_Witness ==
    \E t1, t2 \in Threads :
        /\ t1 # t2
        /\ InWrap(t1)
        /\ pc[t2] = "finally" /\ ~is_acquire[t2]

C2_Step ==
    \A t \in Threads :
        /\ (pc[t] = "acquire" /\ pc'[t] # "acquire" /\ rlock.owner \notin {NoThread, t})
              => (~is_acquire'[t] /\ pc'[t] = "finally" /\ rlock' = rlock)
        /\ (pc[t] = "finally" /\ ~is_acquire[t] /\ pc'[t] # "finally")
              => (pc'[t] = "returned" /\ res'[t] = BrokenRes)

C2_State ==
    \A t \in Threads :
        /\ pc[t] = "acquire" => ENABLED Acquire(t)
        /\ (pc[t] \in {"finally", "returned"} /\ ~is_acquire[t])
              => (nPre[t] = 0 /\ nBcast[t] = 0 /\ nModel[t] = 0)

\* C2: a request whose acquire finds the permit held by another request gets
\* FALSE, goes straight to the fall-through return {"errCode": -1, "info":
\* "broken"}: the acquire never blocks, the request does not enter
\* predict_wrap and does no preprocessing, broadcast or model invocation.
C2_RejectedBusy == [][C2_Step]_vars /\ []C2_State

\* a refused request has returned "broken" while the holder is still inside
C2_Witness ==
    \E t1, t2 \in Threads :
        /\ t1 # t2
        /\ InWrap(t1)
        /\ pc[t2] = "returned" /\ ~is_acquire[t2] /\ res[t2] = BrokenRes

C3_State ==
    /\ \A t \in Threads : ~InFlight(t) => rlock.owner # t
    /\ (\A t \in Threads : ~InFlight(t)) => rlock = [owner |-> NoThread, count |-> 0]

C3_Admit ==
    \A t \in Threads :
        ( /\ \A u \in Threads : u # t => ~InFlight(u)
          /\ pc[t] = "acquire" /\ pc'[t] # "acquire" )
        => (is_acquire'[t] /\ pc'[t] = "wrap")

\* C3: a request that acquired the permit has released it when predict has
\* returned, by result or by exception of predict_wrap; when no request is in
\* flight the permit is free and the next request is admitted.
C3_PermitReleased == []C3_State /\ [][C3_Admit]_vars

\* a request whose predict_wrap raised has returned and the permit is free
C3_Witness ==
    \E t \in Threads :
        /\ pc[t] = "returned" /\ is_acquire[t] /\ raised[t]
        /\ rlock.owner = NoThread

\* a reply with errCode, content (a list of one buffer entry) and info
WellFormed(r) ==
    /\ DOMAIN r = {"errCode", "content", "info"}
    /\ Len(r.content) = 1
    /\ DOMAIN r.content[1] = {"buffer"}

\* C4: every call of predict returns a well-formed result (errCode, content
\* with one buffer entry, info), on success, on each failure class, on an
\* exception leaving predict_wrap and on the busy rejection.
C4_WellFormedResult ==
    \A t \in Threads : pc[t] = "returned" => WellFormed(res[t])

\* the failure class of a returned request, by the place that produced its reply
FailureClass(t) ==
    IF ~is_acquire[t] THEN "busy"
    ELSE IF res[t] = InvalidRes THEN "invalid_input"
    ELSE IF res[t] = PreprocessFailedRes THEN "preprocess_failed"
    ELSE IF res[t] = GenerateFailedRes THEN "generation_failed"
    ELSE "other"

FourClasses == {"busy", "invalid_input", "preprocess_failed", "generation_failed"}

\* C5: invalid input, preprocess failure, generation failure and busy are
\* reported with pairwise different negative errCode values.
C5_DistinctErrCodes ==
    \A t1, t2 \in Threads :
        ( /\ pc[t1] = "returned" /\ pc[t2] = "returned"
          /\ FailureClass(t1) \in FourClasses /\ FailureClass(t2) \in FourClasses
          /\ FailureClass(t1) # FailureClass(t2) )
        => ( /\ res[t1].errCode < 0 /\ res[t2].errCode < 0
             /\ res[t1].errCode # res[t2].errCode )

\* C6: in multi-rank mode rank 0 performs the broadcast exactly once for
\* every admitted request, also when validation or preprocessing fails.
C6_BroadcastOnce ==
    \A t \in Threads :
        (sp_size > 1 /\ pc[t] = "returned" /\ is_acquire[t]) => nBcast[t] = 1

\* C10: an admitted request whose image_path or audio_path is None returns
\* errCode -3 "input content is not valid" and runs neither preprocessing,
\* nor the broadcast, nor the model.
C10_InvalidInputFirst ==
    \A t \in Threads :
        ( /\ pc[t] = "returned" /\ is_acquire[t]
          /\ (req[t].image_path = None \/ req[t].audio_path = None) )
        => ( /\ res[t] = InvalidRes
             /\ nPre[t] = 0 /\ nBcast[t] = 0 /\ nModel[t] = 0 )

C11_Step ==
    \A t \in Threads :
        (pc[t] = "preprocess" /\ nPre'[t] # nPre[t] /\ pc'[t] # "pre_sync")
        => (pc'[t] = "finally" /\ res'[t] = PreprocessFailedRes /\ nPre'[t] = 1)

C11_State ==
    \A t \in Threads :
        (pc[t] \in {"finally", "returned"} /\ res[t] = PreprocessFailedRes)
        => (res[t].errCode = -2 /\ nPre[t] = 1 /\ nBcast[t] = 0 /\ nModel[t] = 0)

\* C11: when data_preprocess_server raises for an admitted request, the
\* request returns errCode -2 "failed to preprocess input data",
\* preprocessing was attempted exactly once and the model (and the
\* broadcast before it) is never reached.
C11_PreprocessFailure == [][C11_Step]_vars /\ []C11_State

\* a request whose preprocessing raised has returned -2 after one attempt
C11_Witness ==
    \E t \in Threads :
        pc[t] = "returned" /\ res[t] = PreprocessFailedRes /\ nPre[t] = 1 /\ nModel[t] = 0

\* =====================================================================
\*  properties of the batch runner
\* =====================================================================

\* process_batch_ultra_low_memory has just ended
BatchRunEnded == b_pc \in {"pb_returned", "pb_raised"}

\* the status a caller can read off the way process_batch ended: a returned
\* output path is a success; an exception re-raised by the retry handler
\* (line 267) is a fatal out-of-memory failure, any other exception a
\* generation failure
RunStatus ==
    IF pb_result.kind = "return" THEN "ok"
    ELSE IF Len(calls) = 2 THEN "oom_fatal"
    ELSE "generation_failed"

\* C7: an OutOfMemoryError of the first invocation at an image size above
\* the floor gives exactly one retry at a strictly smaller configuration,
\* and the run ends as oom_recovered when the retry succeeds, as oom_fatal
\* when it fails.
C7_OomRetryStatus ==
    ( /\ BatchRunEnded
      /\ Len(calls) >= 1
      /\ calls[1].outcome = "OutOfMemoryError"
      /\ calls[1].image_size > 128 )
    => ( /\ Len(calls) = 2
         /\ calls[2].image_size < calls[1].image_size
         /\ calls[2].audio_len <= calls[1].audio_len
         /\ RunStatus =
               IF calls[2].outcome = "ok" THEN "oom_recovered" ELSE "oom_fatal" )

\* C8: with cpu_offload, after any run of process_batch the audio encoder is
\* on the host again, where it was before the run.
C8_WhisperBackOnHost ==
    (BatchRunEnded /\ args_cpu_offload)
    => (wav2vec_dev = "cpu" /\ wav2vec_dev = dev_before)

\* C9: when main is back at the head of its loop after a batch that invoked
\* the model, a cleanup has run since the last invocation, whatever the
\* outcome of the batch.
C9_CleanupOnEveryExit ==
    (b_pc = "loop" /\ Len(calls) >= 1) => cleaned

\* the frame count process_batch keeps for a clip of loaded_audio_len frames:
\* capped at 129 under infer_min (line 231) and at 64 after the OOM
\* downgrade (line 258)
CappedAudioLen ==
    LET base == IF args_infer_min THEN Min(129, loaded_audio_len) ELSE loaded_audio_len
    IN  IF Len(calls) = 2 THEN Min(64, base) ELSE base

\* C12 as stated: the generated result of either program has exactly the
\* audio-derived frame count floor(N*F), whatever the model produced beyond
\* it; no fixed clip length or cap decides the trim.
C12_TrimToAudioLength ==
    /\ \A t \in Threads :
          (pc[t] \in {"finally", "returned"} /\ res[t] = SuccessRes)
          => wrap_frames[t].kept = wrap_audio_len[t]
    /\ b_pc = "pb_returned" => frames.kept = loaded_audio_len

\* C12 amended: the result the server's predict_wrap returns has exactly the
\* audio-derived frame count floor(N*F), with no cap; the result
\* process_batch_ultra_low_memory saves is trimmed to the audio-derived frame
\* count capped at 129 when infer_min is set and at 64 when it comes from
\* the OOM retry, and it is exactly floor(N*F) when no cap applies.
C12_TrimToCappedAudioLength ==
    /\ \A t \in Threads :
          (pc[t] \in {"finally", "returned"} /\ res[t] = SuccessRes)
          => ( /\ wrap_audio_len[t] \in AudioLens
               /\ wrap_frames[t].produced >= wrap_audio_len[t]
               /\ wrap_frames[t].kept = wrap_audio_len[t] )
    /\ b_pc = "pb_returned"
       => ( /\ frames.kept = CappedAudioLen
            /\ frames.kept <= loaded_audio_len
            /\ (~args_infer_min /\ Len(calls) = 1) => frames.kept = loaded_audio_len
            /\ (loaded_audio_len <= 64) => frames.kept = loaded_audio_len )

\* the server returned a video for a clip of 200 frames, above both caps of
\* the batch runner: the model produced more frames and the result was
\* trimmed to exactly 200
C12_Witness ==
    \E t \in Threads :
        /\ pc[t] = "returned"
        /\ res[t] = SuccessRes
        /\ wrap_audio_len[t] = 200
        /\ wrap_frames[t].produced > 200
        /\ wrap_frames[t].kept = 200

\* =====================================================================
\*  properties of the configuration and monitoring functions
\* =====================================================================

\* the last call was detect_optimal_settings with no override variable set
DetectNoOverrides ==
    /\ cfg.fn = "detect_optimal_settings"
    /\ cfg.in.image_size = Unset
    /\ cfg.in.video_length = Unset
    /\ cfg.in.inference_steps = Unset
    /\ cfg.in.batch_size = Unset

\* C13: for every capacity, and also when the accelerator probe throws or
\* an override value is malformed, get_recommended_config and
\* detect_optimal_settings return a preset / tier of the fixed set and
\* never raise.
C13_ClassifyNeverRaises ==
    /\ (cfg.fn = "detect_optimal_settings")
       => (~cfg.out.raised /\ cfg.out.tier \in Tiers)
    /\ (cfg.fn = "get_recommended_config")
       => (~cfg.out.raised /\ cfg.out.preset \in Presets)

\* C14: with VRAM_MODE automatic and no overrides the tier follows the total
\* capacity: no accelerator cpu_only, <= 6 GiB ultra_minimal, <= 8 GiB
\* ultra_low, <= 12 GiB low, <= 16 GiB balanced, <= 24 GiB high_performance,
\* above that maximum_quality; 8 000 000 000 bytes give ultra_low with
\* resolution 256, clip length 16 and 20 steps.
C14_AutoClassification ==
    (DetectNoOverrides /\ cfg.in.vram_mode = "auto" /\ cfg.in.detection # "raises")
    => LET cuda  == cfg.in.detection = "cuda"
           total == cfg.in.total
           tier  == cfg.out.tier
       IN  /\ ~cfg.out.raised
           /\ ~cuda => tier = "cpu_only"
           /\ (cuda /\ total <= 6 * GiB) => tier = "ultra_minimal"
           /\ (cuda /\ 6 * GiB < total /\ total <= 8 * GiB) => tier = "ultra_low"
           /\ (cuda /\ 8 * GiB < total /\ total <= 12 * GiB) => tier = "low"
           /\ (cuda /\ 12 * GiB < total /\ total <= 16 * GiB) => tier = "balanced"
           /\ (cuda /\ 16 * GiB < total /\ total <= 24 * GiB) => tier = "high_performance"
           /\ (cuda /\ 24 * GiB < total) => tier = "maximum_quality"
           /\ (cuda /\ total = 7630)
              => /\ tier = "ultra_low"
                 /\ cfg.out.image_size = 256
                 /\ cfg.out.video_length = 16
                 /\ cfg.out.inference_steps = 20

\* detect_optimal_settings has classified 8 000 000 000 bytes automatically
C14_Witness ==
    /\ DetectNoOverrides
    /\ cfg.in.vram_mode = "auto"
    /\ cfg.in.detection = "cuda"
    /\ cfg.in.total = 7630
    /\ cfg.out.tier = "ultra_low"
    /\ cfg.out.image_size = 256

\* the resolution get_recommended_config selects for a capacity
NominalImageSize(total) == QualityPresets(RecommendedPreset("cuda", total)).image_size

\* the last call was get_dynamic_memory_config with less than 2 GiB free
DynamicUnderSeverePressure ==
    /\ cfg.fn = "get_dynamic_memory_config"
    /\ cfg.in.detection = "cuda"
    /\ cfg.in.total - cfg.in.alloc < 2 * GiB

\* C15: with less than 2 GiB free the dynamic configuration has a strictly
\* smaller resolution (at least one tier below) than the nominal one that
\* get_recommended_config selects for the capacity.
C15_StrictlyBelowNominal ==
    DynamicUnderSeverePressure
    => (cfg.out.is_dict /\ cfg.out.image_size < NominalImageSize(cfg.in.total))

\* detect_optimal_settings forced to a tier, no overrides
Resolve(tier) ==
    DetectOptimalSettings("none", tier, "no_cuda", 6 * GiB, Unset, Unset, Unset, Unset)

\* C16: in the capability order cpu_only < ultra_minimal < ultra_low < low <
\* balanced < high_performance < maximum_quality the resolution resolved
\* without overrides never decreases, and neither does the resolution of
\* QUALITY_PRESETS in its declared order.
C16_MonotoneResolution ==
    /\ (DetectNoOverrides /\ ~cfg.out.raised)
       => \A i, j \in 1..Len(TierOrder) :
             /\ (i <= j /\ TierOrder[j] = cfg.out.tier)
                => Resolve(TierOrder[i]).image_size <= cfg.out.image_size
             /\ (i <= j /\ TierOrder[i] = cfg.out.tier)
                => cfg.out.image_size <= Resolve(TierOrder[j]).image_size
    /\ (cfg.fn = "get_recommended_config")
       => \A i, j \in 1..Len(PresetOrder) :
             /\ (i <= j /\ PresetOrder[j] = cfg.out.preset)
                => QualityPresets(PresetOrder[i]).image_size
                   <= QualityPresets(cfg.out.preset).image_size
             /\ (i <= j /\ PresetOrder[i] = cfg.out.preset)
                => QualityPresets(cfg.out.preset).image_size
                   <= QualityPresets(PresetOrder[j]).image_size

\* a middle tier resolved without overrides, strictly between its neighbours
C16_Witness ==
    /\ DetectNoOverrides
    /\ cfg.in.vram_mode = "balanced"
    /\ cfg.out.image_size = 512
    /\ Resolve("low").image_size = 384
    /\ Resolve("high_performance").image_size = 704

\* C17: for every tier and every override value the resolved resolution
\* never exceeds the tier's ceiling (an override above it is clamped).
C17_OverrideClamped ==
    (cfg.fn = "detect_optimal_settings" /\ ~cfg.out.raised)
    => cfg.out.image_size <= TierDefaults(cfg.out.tier).image_size

\* C18: get_recommended_config returns ultra_low_vram for every capacity of
\* at most 8 GiB, without CUDA and when detection raises; low_vram above 8
\* and up to 12 GiB; balanced above 12 GiB.
C18_RecommendedPresetPerTests ==
    (cfg.fn = "get_recommended_config")
    => cfg.out.preset =
          IF cfg.in.detection # "cuda" \/ cfg.in.total <= 8 * GiB THEN "ultra_low_vram"
          ELSE IF cfg.in.total <= 12 * GiB THEN "low_vram"
          ELSE "balanced"

\* the last call was a monitoring checkpoint on a CUDA machine
AtCheckpoint(fn) == cfg.fn = fn /\ cfg.in.cuda

\* C19 as stated: usage below 75 % no cleanup, from 75 % up to and
\* including 85 % the standard cleanup, above 85 % the emergency cleanup.
C19_BandsFrom75 ==
    (AtCheckpoint("monitor_memory_usage") \/ AtCheckpoint("monitor_and_cleanup_memory"))
    => LET a == cfg.in.alloc * 100
           t == cfg.in.total
       IN  /\ (a < 75 * t) => cfg.out = "none"
           /\ (75 * t <= a /\ a <= 85 * t) => cfg.out = "standard"
           /\ (a > 85 * t) => cfg.out = "emergency"

\* C19 (amended): at a checkpoint of monitor_memory_usage usage up to and
\* including 75 % triggers no cleanup, usage above 75 % up to and including
\* 85 % the standard cleanup and no emergency cleanup, usage above 85 % the
\* emergency cleanup; monitor_and_cleanup_memory runs the standard cleanup
\* for every usage above 75 % and nothing otherwise.
C19_BandsAbove75 ==
    /\ AtCheckpoint("monitor_memory_usage")
       => LET a == cfg.in.alloc * 100
              t == cfg.in.total
          IN  /\ (a <= 75 * t) => cfg.out = "none"
              /\ (75 * t < a /\ a <= 85 * t) => cfg.out = "standard"
              /\ (a > 85 * t) => cfg.out = "emergency"
    /\ AtCheckpoint("monitor_and_cleanup_memory")
       => LET a == cfg.in.alloc * 100
              t == cfg.in.total
          IN  /\ (a <= 75 * t) => cfg.out = "none"
              /\ (a > 75 * t) => cfg.out = "standard"

\* a checkpoint at exactly 75 % that cleaned nothing
C19_Witness ==
    /\ AtCheckpoint("monitor_memory_usage")
    /\ cfg.in.alloc * 100 = 75 * cfg.in.total
    /\ cfg.out = "none"

\* =====================================================================
\*  properties of model loading
\* =====================================================================

\* a component that is not loaded, is on the host, or is under the
\* offloading of the mmgp library or of diffusers' group offloading
HostResident(dev) == dev \in {"none", "cpu", "mmgp", "group_offload"}

\* C20: after an emergency cleanup at a checkpoint of
\* load_models_with_offloading every loaded component (transformer, audio
\* encoder, face aligner; loading needs none of them) is host-resident.
C20_EmergencyOffloadsAll ==
    (last_cleanup = "emergency")
    => /\ HostResident(transformer_dev)
       /\ HostResident(wav2vec_dev)
       /\ HostResident(align_dev)

\* =====================================================================
\*  properties of the web demo
\* =====================================================================

\* the call of thread t is past line 247 and has not left the finally block
InBody(t) ==
    g_pc[t] \in {"init", "ip_check", "ip_settings", "ip_assign", "ip_info",
                 "settings", "body", "finally"}

\* C21: at most one generate_avatar_video call is past the processing_lock
\* check and inside the generation body at any time.
C21_OneGeneration ==
    \A t1, t2 \in Threads : (InBody(t1) /\ InBody(t2)) => t1 = t2

C22_State ==
    /\ processing_lock => \E t \in Threads : InBody(t)
    /\ (\A t \in Threads : g_pc[t] \in {"idle", "returned"}) => ~processing_lock

C22_Step ==
    /\ \A t \in Threads :
          /\ (g_pc[t] \in {"check", "validate"} /\ g_pc'[t] = "returned")
             => (processing_lock' = processing_lock /\ g_res'[t] \in RejectedResults)
          /\ (InBody(t) /\ g_pc'[t] = "returned")
             => (processing_lock' = FALSE /\ g_res'[t] \in BodyResults)
          /\ (InBody(t) /\ g_pc[t] # "finally" /\ g_pc'[t] # g_pc[t])
             => g_pc'[t] \in {"ip_check", "ip_settings", "ip_assign", "ip_info",
                              "settings", "body", "finally"}
          /\ (ByButton(t) /\ g_pc'[t] # g_pc[t])
             => processing_lock' = processing_lock
    /\ (processing_lock' /\ ~processing_lock)
       => \E t \in Threads : g_pc[t] = "validate" /\ g_pc'[t] = "init"

\* C22: processing_lock is True only while some call is inside its
\* generation body; a call that set it resets it on each of its exit paths
\* (success, initialisation failure, audio too long, exception); calls
\* rejected as busy or for a missing input leave it unchanged; once all
\* calls have returned it is False.
C22_LockReleasedOnEveryExit == []C22_State /\ [][C22_Step]_vars

\* every call has returned, one of them through the audio-too-long exit,
\* another through an exception or an initialisation failure
C22_Witness ==
    /\ \A t \in Threads : g_pc[t] = "returned"
    /\ \E t \in Threads : g_res[t] = "audio_too_long"
    /\ \E t \in Threads : g_res[t] \in {"exception", "init_failed"}
    /\ ~processing_lock

\* =====================================================================
\*  further properties of the batch runner
\* =====================================================================

C23_State ==
    /\ batch_index <= NumBatches
    /\ (b_pc \in {"loop", "done"})
       => successful_generations + raised_batches = batch_index
    /\ (b_pc = "done") => batch_index = NumBatches

C23_Step ==
    /\ (batch_index' # batch_index)
       => (batch_index' = batch_index + 1 /\ b_pc = "loop" /\ b_pc' = "pb_entry")
    /\ (b_pc = "pb_raised" /\ b_pc' # b_pc)
       => (b_pc' = "loop" /\ successful_generations' = successful_generations)
    /\ (successful_generations' # successful_generations)
       => (successful_generations' = successful_generations + 1 /\ b_pc = "pb_returned")

\* C23: a batch whose processing raises (a failed OOM retry included) does
\* not stop the run: the batches are attempted once each, in order, the
\* loop ends after the last one, and successful_generations counts the
\* batches that did not raise.
C23_RunSurvivesFailures ==
    []C23_State /\ [][C23_Step]_vars /\ <>(b_pc = "done")

\* the run is over; it had a success, and its last batch raised from the
\* OOM retry
C23_Witness ==
    /\ b_pc = "done"
    /\ successful_generations >= 1
    /\ raised_batches >= 1
    /\ pb_result.kind = "raise"
    /\ Len(calls) = 2

C24_State ==
    /\ Len(calls) <= 2
    /\ (Len(calls) = 2) => calls[1].outcome = "OutOfMemoryError"
    /\ (b_pc = "retry") => (Len(calls) = 1 /\ calls[1].outcome = "OutOfMemoryError")
    /\ (b_pc = "pb_raised") => calls[Len(calls)].outcome # "ok"

C24_Step ==
    (Len(calls') > Len(calls))
    => /\ b_pc \in {"infer", "retry"}
       /\ Len(calls') = Len(calls) + 1
       /\ (b_pc = "infer" /\ calls'[1].outcome = "RuntimeError") => b_pc' = "pb_raised"
       /\ (b_pc = "retry" /\ calls'[2].outcome # "ok") => b_pc' = "pb_raised"

\* C24: the model is invoked at most twice per batch, a second time only
\* after an out-of-memory error of the first; any other exception of the
\* first invocation and any exception of the retry end the batch.
C24_SingleRetry == []C24_State /\ [][C24_Step]_vars

\* a batch that ended with the retry raising an out-of-memory error again
C24_Witness ==
    /\ b_pc = "pb_raised"
    /\ Len(calls) = 2
    /\ calls[2].outcome = "OutOfMemoryError"

\* C26: the image size of the retry is at most the image size in effect
\* when the out-of-memory error occurred and at least 128.
C26_DowngradeNeverIncreases ==
    (Len(calls) = 2)
    => (calls[2].image_size <= calls[1].image_size /\ calls[2].image_size >= 128)

\* C27: when process_batch_ultra_low_memory has ended, by return or by
\* exception, args.image_size is what it was when the run began.
C27_ImageSizeRestored ==
    BatchRunEnded => args_image_size = entry_image_size

\* =====================================================================
\*  further properties of loading, the server and the configuration
\* =====================================================================

\* C25: load_models_with_offloading keeps every argument that was set on the
\* command line: image_size, cpu_offload, mixed_precision and infer_min have
\* their earlier value after the call unless they were missing or None.
C25_CliArgumentsPreserved ==
    (l_pc \notin {"off", "start"})
    => /\ (cli_args.image_size # NoSize) => args_image_size = cli_args.image_size
       /\ (cli_args.cpu_offload # None) => args_cpu_offload = (cli_args.cpu_offload = "True")
       /\ (cli_args.mixed_precision # None)
          => args_mixed_precision = (cli_args.mixed_precision = "True")
       /\ (cli_args.infer_min # None) => args_infer_min = (cli_args.infer_min = "True")

\* C28: in single-process mode an admitted request with valid paths reaches
\* preprocessing and the model, returns errCode 0 when both succeed, and
\* never ends as {"errCode": -1, "info": "broken"}.
C28_SingleProcessServes ==
    \A t \in Threads :
        ( /\ sp_size <= 1
          /\ pc[t] = "returned"
          /\ is_acquire[t]
          /\ req[t].image_path # None
          /\ req[t].audio_path # None )
        => (res[t] # BrokenRes /\ nPre[t] >= 1)

\* C29: the image_size get_dynamic_memory_config returns never exceeds the
\* image_size get_recommended_config selects for the same capacity.
C29_DynamicNeverAboveNominal ==
    (cfg.fn = "get_dynamic_memory_config" /\ cfg.in.detection = "cuda")
    => (cfg.out.is_dict /\ cfg.out.image_size <= NominalImageSize(cfg.in.total))

\* a request with both paths present
ValidRequest(r) == r.image_path # None /\ r.audio_path # None

C30_State ==
    (sp_size > 1)
    => /\ (w_pc = "w_generate") => ValidRequest(w_batch)
       /\ (w_pc = "bcast_wait") => w_batch = None
       /\ \A t \in Threads :
             /\ (pc[t] = "generate" /\ w_pc = "w_generate") => w_batch = req[t]
             /\ (nBcast[t] > 0) => (nBcast[t] = 1 /\ nPre[t] = 1 /\ ValidRequest(req[t]))
             /\ (nModel[t] > 0) => nBcast[t] = 1

C30_Step ==
    /\ (w_pc' = "w_generate" /\ w_pc # "w_generate")
       => \E t \in Threads :
             /\ pc[t] = "broadcast" /\ pc'[t] = "generate"
             /\ nBcast'[t] = nBcast[t] + 1
             /\ w_pc = "bcast_wait"
             /\ w_batch' = req[t]
    /\ \A t \in Threads :
          (nBcast'[t] > nBcast[t] /\ pc'[t] = "generate")
          => (w_pc = "bcast_wait" /\ w_pc' = "w_generate" /\ w_batch' = req[t])
    /\ \A t \in Threads :
          (nBcast'[t] > nBcast[t] /\ pc'[t] # "generate")
          => (pc'[t] = "finally" /\ res'[t] = GenerateFailedRes /\ nModel'[t] = 0
              /\ w_pc' = w_pc /\ w_batch' = w_batch)

\* C30: in multi-rank mode every broadcast rank 0 issues is the broadcast
\* the non-zero rank completes, so the non-zero rank invokes the model on
\* the batch of the request rank 0 invokes it for, and never for a request
\* rank 0 rejected before the broadcast.
C30_BroadcastsPaired == []C30_State /\ [][C30_Step]_vars

\* both ranks are about to invoke the model for the same request, after an
\* earlier request of another thread was rejected without a broadcast
C30_Witness ==
    /\ sp_size > 1
    /\ w_pc = "w_generate"
    /\ \E t \in Threads : pc[t] = "generate" /\ w_batch = req[t]
    /\ \E t \in Threads : pc[t] = "returned" /\ res[t] = InvalidRes /\ nBcast[t] = 0

====
